---------------------------- MODULE Spec2Model ----------------------------
(***************************************************************************)
(* termtypr: the typing Session (games/base_game.py and its two variants), *)
(* the metrics (core/stats_calculator.py) and the ApplicationRouter        *)
(* (application/application_router.py) over an in-memory history store.    *)
(*                                                                         *)
(* Strings are sequences of characters.  Floats are kept in hundredths     *)
(* (wpm 12.50 is 1250); wall-clock time is the integer clock `now`.        *)
(***************************************************************************)
EXTENDS Integers, Sequences, FiniteSets, TLC

VARIABLES
    current_game,          \* ApplicationRouter.current_game, or the Session driven directly
    selected_game_index,   \* ApplicationRouter.selected_game_index
    history,               \* InMemoryHistoryRepository._results
    now,                   \* the wall clock read by time.time()
    words,                 \* the word corpus WordStorage.get_words() returns
    file,                  \* the content of JsonHistoryRepository.file_path
    results_cache,         \* JsonHistoryRepository._results_cache
    user_preferences,      \* config.user_preferences
    game_result,           \* a GameResult held by a caller of to_dict / from_dict
    record,                \* a record (dict) as written to or read from the history list
    args,                  \* the arguments of a stats_calculator call
    stats,                 \* the values the stats_calculator calls returned
    preferences_file,      \* the content of JsonPreferencesRepository.file_path
    other_results_cache    \* _results_cache of a second JsonHistoryRepository on the same file

vars == <<current_game, selected_game_index, history, now, words, file, results_cache,
          user_preferences, game_result, record, args, stats, preferences_file, other_results_cache>>

---------------------------------------------------------------------------
(* Bounds of the model *)

MaxInputLen == 2      \* longest text handed to Session.process_input
MaxRouterInputLen == 1 \* longest text handed to ApplicationRouter.process_game_input
MaxTime == 2          \* last clock value
MaxErrors == 2        \* error_count is explored up to this value
MaxAttempted == 1     \* tokens submitted per Session (longer targets are cut short)
MaxHistory == 1       \* Results committed to the store
MaxStored == 3        \* Results saved to a repository driven directly
MaxWords == 2         \* longest word list handed to a stats_calculator call
MaxElapsed == 3       \* longest elapsed time handed to calculate_wpm
MaxShared == 2        \* Results saved through two repositories on one file
MaxDelta == 4         \* largest step handed to navigate_game_selection, in either direction

(* Program constants *)

MIN_WORD_COUNT == 5
MAX_WORD_COUNT == 200
DEFAULT_WORD_COUNT == 20

Alphabet == {"a", "b"}

\* every text of at most MaxInputLen characters
Texts == UNION {[1..n -> Alphabet] : n \in 0..MaxInputLen}
RouterTexts == UNION {[1..n -> Alphabet] : n \in 0..MaxRouterInputLen}

\* the phrase corpus, each phrase already split into its tokens
Phrases == {<<<<"a", "b">>, <<"b">>>>, <<<<"a">>>>}

\* the word corpora the model starts from: missing/empty, or one word
WordCorpora == {<<>>, <<<<"a", "b">>>>}

NOT_STARTED == "not_started"
READY == "ready"
ACTIVE == "active"
COMPLETED == "completed"
CANCELLED == "cancelled"

\* Python's None where an object is expected; an absent float is <<>>, a present one <<x>>
None == [none |-> TRUE]

---------------------------------------------------------------------------
(* Helpers standing for Python built-ins *)

Min(a, b) == IF a <= b THEN a ELSE b
Max(a, b) == IF a >= b THEN a ELSE b

\* seq[:n]
Take(seq, n) == SubSeq(seq, 1, Min(n, Len(seq)))

\* target_word.startswith(input_text)
startswith(word, prefix) ==
    /\ Len(prefix) <= Len(word)
    /\ \A i \in 1..Len(prefix) : prefix[i] = word[i]

\* sum(len(w) for w in ws)
RECURSIVE SumLen(_)
SumLen(ws) == IF ws = <<>> THEN 0 ELSE Len(Head(ws)) + SumLen(Tail(ws))

\* round(n / d, 0) for n >= 0, d > 0, ties to even as Python's round
RoundDiv(n, d) ==
    LET q == n \div d
        r == n % d
    IN  IF 2 * r < d THEN q
        ELSE IF 2 * r > d THEN q + 1
        ELSE IF q % 2 = 0 THEN q ELSE q + 1

\* a datetime: its wall-clock reading, whether it carries tzinfo, and its UTC offset
datetime(wall, aware, utcoffset) == [wall |-> wall, aware |-> aware, utcoffset |-> utcoffset]

\* datetime.now(tz=timezone.utc) at time t
utc_now(t) == datetime(t, TRUE, 0)

\* the instant of an aware datetime, by which aware datetimes are ordered
instant(dt) == dt.wall - dt.utcoffset

---------------------------------------------------------------------------
(* core/stats_calculator.py *)

\* character positions where typed and target differ, padding the shorter with ""
CharErrors(typed, target) ==
    Cardinality({i \in 1..Max(Len(typed), Len(target)) :
                    \/ i > Len(typed)
                    \/ i > Len(target)
                    \/ typed[i] # target[i]})

RECURSIVE uncorrected_errors(_, _)
uncorrected_errors(typed_words, target_words) ==
    IF typed_words = <<>> \/ target_words = <<>> THEN 0
    ELSE CharErrors(Head(typed_words), Head(target_words))
            + uncorrected_errors(Tail(typed_words), Tail(target_words))

\* variant: the net rate not clamped at 0
calculate_wpm_unclamped(typed_words, target_words, elapsed_time_seconds) ==
    IF elapsed_time_seconds = 0 THEN 0
    ELSE LET total_chars == SumLen(typed_words)
                 + (IF Len(typed_words) > 1 THEN Len(typed_words) - 1 ELSE 0)
             net == total_chars - uncorrected_errors(typed_words, target_words)
         IN  RoundDiv(1200 * net, elapsed_time_seconds)

\* in hundredths of a word per minute
calculate_wpm(typed_words, target_words, elapsed_time_seconds) ==
    IF elapsed_time_seconds = 0 THEN 0
    ELSE LET total_chars == SumLen(typed_words)
                 + (IF Len(typed_words) > 1 THEN Len(typed_words) - 1 ELSE 0)
             net == total_chars - uncorrected_errors(typed_words, target_words)
         IN  RoundDiv(1200 * Max(net, 0), elapsed_time_seconds)

\* variant: the typo count not capped at the typed characters
calculate_accuracy_uncapped(typed_words, target_words, typo_count) ==
    IF typed_words = <<>> \/ target_words = <<>> THEN 0
    ELSE LET total_chars_typed == SumLen(typed_words)
         IN  IF total_chars_typed = 0 THEN 0
             ELSE RoundDiv(10000 * (total_chars_typed - typo_count), total_chars_typed)

\* in hundredths of a percent
calculate_accuracy(typed_words, target_words, typo_count) ==
    IF typed_words = <<>> \/ target_words = <<>> THEN 0
    ELSE LET total_chars_typed == SumLen(typed_words)
         IN  IF total_chars_typed = 0 THEN 0
             ELSE RoundDiv(10000 * (total_chars_typed - Min(typo_count, total_chars_typed)),
                           total_chars_typed)

\* the arguments of a call, and the values returned so far (none yet)
Args(typed_words, target_words, elapsed_time_seconds, typo_count) ==
    [typed_words |-> typed_words, target_words |-> target_words,
     elapsed_time_seconds |-> elapsed_time_seconds, typo_count |-> typo_count]
NoArgs == Args(<<>>, <<>>, 0, 0)
NoStats == [wpm |-> <<>>, accuracy |-> <<>>]

---------------------------------------------------------------------------
(* games/base_game.py: the Session *)

\* BaseGame.__init__ as called by the two variants
NewGame(cls) ==
    [cls |-> cls,
     name |-> IF cls = "RandomWordsGame" THEN "Random Words" ELSE "Phrase Typing",
     status |-> NOT_STARTED,
     result |-> None,
     target_words |-> <<>>,
     typed_words |-> <<>>,
     current_word_index |-> 0,
     start_time |-> 0,
     end_time |-> 0,
     error_count |-> 0,
     current_input |-> <<>>,
     previous_input |-> <<>>,
     word_count |-> DEFAULT_WORD_COUNT]

cancel(g) == [g EXCEPT !.status = CANCELLED, !.result = None]

is_finished(g) == g.status \in {COMPLETED, CANCELLED}

reset_state(g) ==
    [g EXCEPT !.typed_words = <<>>,
              !.current_word_index = 0,
              !.start_time = 0,
              !.end_time = 0,
              !.error_count = 0,
              !.current_input = <<>>,
              !.previous_input = <<>>,
              !.result = None]

\* while len(typed_words) <= n: typed_words.append("")
RECURSIVE PadTo(_, _)
PadTo(typed, n) == IF Len(typed) >= n THEN typed ELSE PadTo(Append(typed, <<>>), n)

\* variant: the "already finished" test left out
process_complete_word_unguarded(g, word) ==
    LET slots == PadTo(g.typed_words, g.current_word_index + 1)
        g1 == [g EXCEPT !.typed_words = [slots EXCEPT ![g.current_word_index + 1] = word],
                        !.current_word_index = g.current_word_index + 1,
                        !.current_input = <<>>,
                        !.previous_input = <<>>]
    IN  IF g1.current_word_index >= Len(g1.target_words)
        THEN [game |-> [g1 EXCEPT !.status = COMPLETED,
                                  !.typed_words = PadTo(g1.typed_words, Len(g1.target_words))],
              status |-> "complete"]
        ELSE [game |-> g1, status |-> "active"]

\* variant: previous_input not reset when the word is committed
process_complete_word_keeps_previous(g, word) ==
    IF g.current_word_index >= Len(g.target_words)
    THEN [game |-> [g EXCEPT !.status = COMPLETED], status |-> "complete"]
    ELSE LET slots == PadTo(g.typed_words, g.current_word_index + 1)
             g1 == [g EXCEPT !.typed_words = [slots EXCEPT ![g.current_word_index + 1] = word],
                             !.current_word_index = g.current_word_index + 1,
                             !.current_input = <<>>]
         IN  IF g1.current_word_index >= Len(g1.target_words)
             THEN [game |-> [g1 EXCEPT !.status = COMPLETED,
                                       !.typed_words = PadTo(g1.typed_words, Len(g1.target_words))],
                   status |-> "complete"]
             ELSE [game |-> g1, status |-> "active"]

\* variant: the last submission does not complete the Session
process_complete_word_stops_early(g, word) ==
    IF g.current_word_index >= Len(g.target_words)
    THEN [game |-> [g EXCEPT !.status = COMPLETED], status |-> "complete"]
    ELSE LET slots == PadTo(g.typed_words, g.current_word_index + 1)
             g1 == [g EXCEPT !.typed_words = [slots EXCEPT ![g.current_word_index + 1] = word],
                             !.current_word_index = g.current_word_index + 1,
                             !.current_input = <<>>,
                             !.previous_input = <<>>]
         IN  IF g1.current_word_index > Len(g1.target_words)
             THEN [game |-> [g1 EXCEPT !.status = COMPLETED,
                                       !.typed_words = PadTo(g1.typed_words, Len(g1.target_words))],
                   status |-> "complete"]
             ELSE [game |-> g1, status |-> "active"]

process_complete_word(g, word) ==
    IF g.current_word_index >= Len(g.target_words)
    THEN [game |-> [g EXCEPT !.status = COMPLETED], status |-> "complete"]
    ELSE LET slots == PadTo(g.typed_words, g.current_word_index + 1)
             g1 == [g EXCEPT !.typed_words = [slots EXCEPT ![g.current_word_index + 1] = word],
                             !.current_word_index = g.current_word_index + 1,
                             !.current_input = <<>>,
                             !.previous_input = <<>>]
         IN  IF g1.current_word_index >= Len(g1.target_words)
             THEN [game |-> [g1 EXCEPT !.status = COMPLETED,
                                       !.typed_words = PadTo(g1.typed_words, Len(g1.target_words))],
                   status |-> "complete"]
             ELSE [game |-> g1, status |-> "active"]

\* variant: an input as long as the previous one counts too
counts_error_resend(g, input_text) ==
    /\ g.current_word_index < Len(g.target_words)
    /\ input_text # <<>>
    /\ Len(input_text) >= Len(g.previous_input)
    /\ ~ startswith(g.target_words[g.current_word_index + 1], input_text)

\* variant: the prefix test with its operands exchanged
counts_error_swapped(g, input_text) ==
    /\ g.current_word_index < Len(g.target_words)
    /\ input_text # <<>>
    /\ Len(input_text) > Len(g.previous_input)
    /\ ~ startswith(input_text, g.target_words[g.current_word_index + 1])

\* whether this partial input is counted as an error
counts_error(g, input_text) ==
    /\ g.current_word_index < Len(g.target_words)
    /\ input_text # <<>>
    /\ Len(input_text) > Len(g.previous_input)
    /\ ~ startswith(g.target_words[g.current_word_index + 1], input_text)

process_partial_input(g, input_text) ==
    LET slots == PadTo(g.typed_words, g.current_word_index + 1)
    IN  [game |-> [g EXCEPT !.error_count = IF counts_error(g, input_text) THEN @ + 1 ELSE @,
                            !.previous_input = input_text,
                            !.current_input = input_text,
                            !.typed_words = [slots EXCEPT ![g.current_word_index + 1] = input_text]],
         status |-> "active"]

\* variant: every non-empty input restarts the timer
starts_timer_always(g, input_text) == input_text # <<>>

\* the timer trigger at the head of process_input
starts_timer(g, input_text) == g.start_time = 0 /\ input_text # <<>>

\* "Start timer on first input"
start_timer(g, input_text, t) ==
    IF starts_timer(g, input_text)
    THEN [g EXCEPT !.status = ACTIVE, !.start_time = t]
    ELSE g

process_input(g, input_text, is_complete_input, t) ==
    LET g1 == start_timer(g, input_text, t)
    IN  IF g1.status # ACTIVE THEN [game |-> g1, status |-> "inactive"]
        ELSE IF is_complete_input THEN process_complete_word(g1, input_text)
        ELSE process_partial_input(g1, input_text)

\* a pure read: the snapshot returned, no field of the Session assigned
get_current_stats(g, t) ==
    IF g.start_time = 0
    THEN [wpm |-> 0, accuracy |-> 10000, elapsed_time |-> 0, characters_typed |-> 0]
    ELSE LET elapsed_time == t - g.start_time
             completed_typed_words == Take(g.typed_words, g.current_word_index)
             completed_target_words == Take(g.target_words, g.current_word_index)
         IN  [wpm |-> IF completed_typed_words # <<>>
                      THEN calculate_wpm(completed_typed_words, completed_target_words, elapsed_time)
                      ELSE 0,
              accuracy |-> IF completed_typed_words # <<>>
                           THEN calculate_accuracy(completed_typed_words, completed_target_words,
                                                   g.error_count)
                           ELSE 10000,
              duration |-> elapsed_time,
              elapsed_time |-> elapsed_time,
              total_words |-> Len(g.target_words),
              characters_typed |-> SumLen(completed_typed_words)]

\* the snapshot for the display, no field of the Session assigned
get_display_data(g) ==
    [target_words |-> g.target_words,
     typed_words |-> g.typed_words,
     current_word_index |-> g.current_word_index,
     current_input |-> g.current_input,
     total_words |-> Len(g.target_words),
     current_target_word |-> IF g.current_word_index < Len(g.target_words)
                             THEN g.target_words[g.current_word_index + 1]
                             ELSE <<>>]

\* variant: the read starts the timer of a Session not yet timed
update_game_stats_starts_timer(g, t) ==
    [game |-> IF g.start_time = 0 THEN [g EXCEPT !.start_time = t] ELSE g,
     stats |-> get_current_stats(g, t),
     display_data |-> get_display_data(g)]

\* the periodic tick and the display push: the two reads, and the Session after them
update_game_stats(g, t) ==
    [game |-> g,
     stats |-> get_current_stats(g, t),
     display_data |-> get_display_data(g)]

\* the status finish() leaves
finish_status(status) == IF status # COMPLETED THEN COMPLETED ELSE status

\* the end_time finish() stamps
finish_end_time(g, t) == t

\* variant: every attempted typed token counted, equal to its target or not
RECURSIVE correct_characters_any(_, _)
correct_characters_any(typed, target) ==
    IF typed = <<>> \/ target = <<>> THEN 0
    ELSE Len(Head(typed)) + correct_characters_any(Tail(typed), Tail(target))

RECURSIVE correct_characters(_, _)
correct_characters(typed, target) ==
    IF typed = <<>> \/ target = <<>> THEN 0
    ELSE (IF Head(typed) = Head(target) THEN Len(Head(typed)) ELSE 0)
            + correct_characters(Tail(typed), Tail(target))

finish(g, t) ==
    LET end_time == finish_end_time(g, t)
        elapsed_time == IF g.start_time > 0 THEN end_time - g.start_time ELSE 0
        completed_typed == Take(g.typed_words, g.current_word_index)
        completed_target == Take(g.target_words, g.current_word_index)
        result == [wpm |-> calculate_wpm(completed_typed, completed_target, elapsed_time),
                   accuracy |-> calculate_accuracy(completed_typed, completed_target, g.error_count),
                   duration |-> elapsed_time,
                   game_type |-> g.name,
                   timestamp |-> utc_now(t),
                   total_characters |-> SumLen(completed_target),
                   correct_characters |-> correct_characters(completed_typed, completed_target),
                   error_count |-> g.error_count,
                   is_new_record |-> FALSE,
                   previous_best |-> <<>>]
    IN  [g EXCEPT !.status = finish_status(g.status),
                  !.end_time = end_time,
                  !.result = result]

---------------------------------------------------------------------------
(* core/word_generator.py, core/phrase_generator.py: what the generators may return *)

Range(seq) == {seq[i] : i \in 1..Len(seq)}

get_random_words(count) ==
    IF words = <<>> THEN {<<>>}
    ELSE IF Len(words) < count
    THEN [1..count -> Range(words)]                          \* random.choices
    ELSE {[i \in 1..count |-> words[f[i]]] :                  \* random.sample
             f \in {h \in [1..count -> 1..Len(words)] :
                       \A i, j \in 1..count : i # j => h[i] # h[j]}}

get_random_phrase == Phrases

---------------------------------------------------------------------------
(* games/random_words_game.py, games/phrase_typing_game.py: the variants *)

\* variant: the bounds of the range are excluded
initialize_exclusive(g, config) ==
    IF g.cls = "RandomWordsGame"
    THEN LET wc == IF config = <<>> THEN DEFAULT_WORD_COUNT ELSE config[1]
             g1 == [g EXCEPT !.word_count = wc]
         IN  IF ~ (MIN_WORD_COUNT < wc /\ wc < MAX_WORD_COUNT)
             THEN [game |-> g1, ok |-> FALSE]
             ELSE [game |-> [g1 EXCEPT !.status = READY], ok |-> TRUE]
    ELSE [game |-> [g EXCEPT !.status = READY], ok |-> TRUE]

\* a config is <<>> (no word_count key) or <<n>>
initialize(g, config) ==
    IF g.cls = "RandomWordsGame"
    THEN LET wc == IF config = <<>> THEN DEFAULT_WORD_COUNT ELSE config[1]
             g1 == [g EXCEPT !.word_count = wc]
         IN  IF ~ (MIN_WORD_COUNT <= wc /\ wc <= MAX_WORD_COUNT)
             THEN [game |-> g1, ok |-> FALSE]
             ELSE [game |-> [g1 EXCEPT !.status = READY], ok |-> TRUE]
    ELSE [game |-> [g EXCEPT !.status = READY], ok |-> TRUE]

\* the target texts start() may generate
Contents(g) ==
    IF g.cls = "RandomWordsGame" THEN get_random_words(g.word_count) ELSE get_random_phrase

\* start() with the generated content given
start(g, content) ==
    IF g.status # READY THEN [game |-> g, ok |-> FALSE]
    ELSE [game |-> [reset_state([g EXCEPT !.target_words = content]) EXCEPT !.status = READY],
          ok |-> TRUE]

---------------------------------------------------------------------------
(* application/application_router.py *)

\* domain/models/user_preferences.py: the preferences loaded at start-up
UserPreferences(word_count) == [word_count |-> word_count]

\* the word counts the user may have stored: the default or the smallest
PreferredWordCounts == {DEFAULT_WORD_COUNT, MIN_WORD_COUNT}

AVAILABLE_GAMES == <<"RandomWordsGame", "PhraseTypingGame">>

\* the configs a caller passes: none, or a word_count in or out of range
Configs == {<<>>, <<MIN_WORD_COUNT - 1>>, <<MIN_WORD_COUNT>>, <<MAX_WORD_COUNT + 1>>}

\* variant: the preference is not merged, initialize falls back on its own default
effective_config_unmerged(config) == config

\* user_preferences.word_count merged into a config that omits word_count
effective_config(config) == IF config = <<>> THEN <<user_preferences.word_count>> ELSE config

\* variant: the upper bound of the range test is inclusive
select_game_inclusive(sel, index) ==
    IF 0 <= index /\ index <= Len(AVAILABLE_GAMES)
    THEN [selected |-> index, ok |-> TRUE]
    ELSE [selected |-> sel, ok |-> FALSE]

select_game(sel, index) ==
    IF 0 <= index /\ index < Len(AVAILABLE_GAMES)
    THEN [selected |-> index, ok |-> TRUE]
    ELSE [selected |-> sel, ok |-> FALSE]

\* variant: the selection stops at the ends of the catalog
navigate_game_selection_clamped(sel, direction) ==
    Max(0, Min(Len(AVAILABLE_GAMES) - 1, sel + direction))

navigate_game_selection(sel, direction) == (sel + direction) % Len(AVAILABLE_GAMES)

\* variant: a failed start removes the Session that was installed
StartOutcomes_clears(cur, sel, config) ==
    IF ~ (0 <= sel /\ sel < Len(AVAILABLE_GAMES))
    THEN {[current_game |-> None, ok |-> FALSE]}
    ELSE LET init == initialize(NewGame(AVAILABLE_GAMES[sel + 1]), effective_config(config))
         IN  IF ~ init.ok THEN {[current_game |-> None, ok |-> FALSE]}
             ELSE {LET st == start(init.game, content)
                   IN  IF ~ st.ok THEN [current_game |-> None, ok |-> FALSE]
                       ELSE [current_game |-> st.game, ok |-> TRUE] :
                      content \in Contents(init.game)}

\* the games start_game may install: one per content the variant may generate
StartOutcomes(cur, sel, config) ==
    IF ~ (0 <= sel /\ sel < Len(AVAILABLE_GAMES))
    THEN {[current_game |-> cur, ok |-> FALSE]}
    ELSE LET init == initialize(NewGame(AVAILABLE_GAMES[sel + 1]), effective_config(config))
         IN  IF ~ init.ok THEN {[current_game |-> cur, ok |-> FALSE]}
             ELSE {LET st == start(init.game, content)
                   IN  IF ~ st.ok THEN [current_game |-> cur, ok |-> FALSE]
                       ELSE [current_game |-> st.game, ok |-> TRUE] :
                      content \in Contents(init.game)}

\* variant: a Session that answers "inactive" counts as a failure
process_game_input_active_only(cur, input_text, is_complete, t) ==
    IF cur = None THEN [current_game |-> cur, ok |-> FALSE]
    ELSE LET r == process_input(cur, input_text, is_complete, t)
         IN  [current_game |-> r.game, ok |-> r.status \notin {"error", "inactive"}]

\* process_game_input: the router's return value and the Session afterwards
process_game_input(cur, input_text, is_complete, t) ==
    IF cur = None THEN [current_game |-> cur, ok |-> FALSE]
    ELSE LET r == process_input(cur, input_text, is_complete, t)
         IN  [current_game |-> r.game, ok |-> r.status # "error"]

\* variant: the Result saved last
get_best_latest(results) == IF results = <<>> THEN None ELSE results[Len(results)]

get_best(results) ==
    IF results = <<>> THEN None
    ELSE LET best == CHOOSE i \in 1..Len(results) :
                        /\ \A j \in 1..Len(results) : results[j].wpm <= results[i].wpm
                        /\ \A j \in 1..(i - 1) : results[j].wpm < results[i].wpm
         IN  results[best]

\* variant: the store is overwritten by the new Result
save_replaces(results, result) == <<result>>

save(results, result) == Append(results, result)

\* variant: the wpm > 0 test left out of is_new_record
finish_game_unguarded(cur, hist, t) ==
    IF cur = None THEN [current_game |-> cur, history |-> hist, result |-> None]
    ELSE LET g == finish(cur, t)
             best == get_best(hist)
             result == [g.result EXCEPT
                          !.is_new_record = best = None \/ g.result.wpm > best.wpm,
                          !.previous_best = IF best # None THEN <<best.wpm>> ELSE <<>>]
         IN  [current_game |-> g, history |-> save(hist, result), result |-> result]

\* variant: the best is read after the Result has been saved
finish_game_saves_first(cur, hist, t) ==
    IF cur = None THEN [current_game |-> cur, history |-> hist, result |-> None]
    ELSE LET g == finish(cur, t)
             best == get_best(save(hist, g.result))
             result == [g.result EXCEPT
                          !.is_new_record = g.result.wpm > 0
                                              /\ (best = None \/ g.result.wpm > best.wpm),
                          !.previous_best = IF best # None THEN <<best.wpm>> ELSE <<>>]
         IN  [current_game |-> g, history |-> save(hist, result), result |-> result]

finish_game(cur, hist, t) ==
    IF cur = None THEN [current_game |-> cur, history |-> hist, result |-> None]
    ELSE LET g == finish(cur, t)
             best == get_best(hist)
             result == [g.result EXCEPT
                          !.is_new_record = g.result.wpm > 0
                                              /\ (best = None \/ g.result.wpm > best.wpm),
                          !.previous_best = IF best # None THEN <<best.wpm>> ELSE <<>>]
         IN  [current_game |-> g, history |-> save(hist, result), result |-> result]

\* variant: the cancelled Session stays installed
cancel_game_keeps_session(cur) ==
    IF cur = None THEN [current_game |-> cur, ok |-> FALSE]
    ELSE [current_game |-> cancel(cur), ok |-> TRUE]

cancel_game(cur) ==
    IF cur = None THEN [current_game |-> cur, ok |-> FALSE]
    ELSE [current_game |-> None, ok |-> TRUE]

RestartOutcomes(cur, sel, keep_same_text) ==
    LET saved_words == IF keep_same_text /\ cur # None THEN cur.target_words ELSE <<>>
    IN  {IF ~ o.ok THEN o
         ELSE IF saved_words # <<>> /\ o.current_game # None
         THEN [o EXCEPT !.current_game.target_words = saved_words]
         ELSE o :
            o \in StartOutcomes(None, sel, <<>>)}

return_to_main_menu(cur, sel) == [current_game |-> None, selected |-> 0]

---------------------------------------------------------------------------
(* infrastructure/persistence/json_preferences_repository.py *)

\* the value under "word_count" in the preferences object: the key missing, an
\* integer, or a value the model's validation rejects whatever the range
WordCountValue(kind, n) == [kind |-> kind, n |-> n]
NoWordCount == WordCountValue("absent", 0)
BadWordCount == WordCountValue("other", 0)

\* the content of the preferences file: no file; a file that cannot be read; a text
\* json.loads rejects with JSONDecodeError; a text nested deeper than the decoder's
\* recursion limit; valid JSON that is not an object; an object
PreferencesFile(kind, word_count) == [kind |-> kind, word_count |-> word_count]
MissingPreferences == PreferencesFile("missing", NoWordCount)

\* UserPreferences(**data): the Field bounds ge / le are validated
validate(data) ==
    IF data.kind = "absent" THEN [raises |-> FALSE, preferences |-> UserPreferences(DEFAULT_WORD_COUNT)]
    ELSE IF data.kind = "int" /\ MIN_WORD_COUNT <= data.n /\ data.n <= MAX_WORD_COUNT
    THEN [raises |-> FALSE, preferences |-> UserPreferences(data.n)]
    ELSE [raises |-> TRUE, preferences |-> UserPreferences(DEFAULT_WORD_COUNT)]

\* load catches ValueError (JSONDecodeError, ValidationError), TypeError (** on a
\* value that is no mapping) and OSError; the decoder's RecursionError is none of them
preferences_load(f) ==
    LET defaults == [raises |-> FALSE, preferences |-> UserPreferences(DEFAULT_WORD_COUNT)]
    IN  IF f.kind = "missing" THEN defaults
        ELSE IF f.kind \in {"unreadable", "text", "value"} THEN defaults
        ELSE IF f.kind = "nested"
        THEN [raises |-> TRUE, preferences |-> UserPreferences(DEFAULT_WORD_COUNT)]
        ELSE IF validate(f.word_count).raises THEN defaults
        ELSE validate(f.word_count)

\* save: the directory cannot be made, the write breaks off after the file was
\* opened (and emptied), or the object is written; OSError is logged, never raised
SaveFaults == {"none", "mkdir", "write"}
preferences_save(f, preferences, fault) ==
    IF fault = "mkdir" THEN f
    ELSE IF fault = "write" THEN PreferencesFile("text", NoWordCount)
    ELSE PreferencesFile("object", WordCountValue("int", preferences.word_count))

---------------------------------------------------------------------------
(* domain/models/game_result.py: serialization of a Result *)

\* the text of a timestamp in a record: the ISO-8601 text of a datetime, with its
\* offset when the datetime is aware; a text datetime.fromisoformat rejects; or ""
TimestampText(iso, empty, dt) ==
    [iso |-> iso, empty |-> empty, wall |-> dt.wall, aware |-> dt.aware, utcoffset |-> dt.utcoffset]
isoformat(ts) == TimestampText(TRUE, FALSE, ts)
UnparsableText == TimestampText(FALSE, FALSE, datetime(0, FALSE, 0))
EmptyText == TimestampText(FALSE, TRUE, datetime(0, FALSE, 0))

fromisoformat(text) ==
    IF text.iso THEN [raises |-> FALSE, ts |-> datetime(text.wall, text.aware, text.utcoffset)]
    ELSE [raises |-> TRUE, ts |-> datetime(0, FALSE, 0)]

\* the dict {}
EmptyRecord == <<>>

\* data.get(key, default)
Get(data, key, default) == IF key \in DOMAIN data THEN data[key] ELSE default

\* the transient flags are not written
to_dict(r) ==
    [wpm |-> r.wpm,
     accuracy |-> r.accuracy,
     duration |-> r.duration,
     game_type |-> r.game_type,
     timestamp |-> isoformat(r.timestamp),
     total_characters |-> r.total_characters,
     correct_characters |-> r.correct_characters,
     error_count |-> r.error_count]

\* `a or b` on the two text keys: a key that is missing (None) or holds "" is falsy
\* and gives way to the legacy key; a naive timestamp gets tzinfo = UTC, its
\* wall-clock reading kept; with no timestamp text the time of the call is taken
from_dict(data, t) ==
    LET timestamp == Get(data, "timestamp", EmptyText)
        raw_ts == IF ~ timestamp.empty THEN timestamp ELSE Get(data, "date", EmptyText)
        parsed == fromisoformat(raw_ts)
        ts == IF raw_ts.empty THEN utc_now(t)
              ELSE IF ~ parsed.ts.aware THEN datetime(parsed.ts.wall, TRUE, 0)
              ELSE parsed.ts
        game_type == Get(data, "game_type", "")
    IN  [raises |-> ~ raw_ts.empty /\ parsed.raises,
         result |-> [wpm |-> Get(data, "wpm", 0),
                     accuracy |-> Get(data, "accuracy", 0),
                     duration |-> Get(data, "duration", 0),
                     game_type |-> IF game_type # "" THEN game_type
                                   ELSE Get(data, "game", "Unknown"),
                     timestamp |-> ts,
                     total_characters |-> Get(data, "total_characters", 0),
                     correct_characters |-> Get(data, "correct_characters", 0),
                     error_count |-> Get(data, "error_count", 0),
                     is_new_record |-> FALSE,
                     previous_best |-> <<>>]]

---------------------------------------------------------------------------
(* infrastructure/persistence/json_history_repository.py *)

\* The backing file: "missing" (no file), "text" (content that is not valid JSON,
\* the empty file included), "array" (valid JSON that is not an object) or
\* "object".  The 'history' member of an object is "absent", "null" (present but
\* not a list) or a "list" of records.
HistoryList(items) == [kind |-> "list", items |-> items]
FileOf(kind, hist) == [kind |-> kind, history |-> hist]
MissingFile == FileOf("missing", HistoryList(<<>>))
TextFile == FileOf("text", HistoryList(<<>>))
ArrayFile == FileOf("array", HistoryList(<<>>))
ObjectFile(hist) == FileOf("object", hist)

\* _results_cache: None, or the list of parsed Results
NoCache == [built |-> FALSE, results |-> <<>>]
Cache(results) == [built |-> TRUE, results |-> results]

\* __init__ with _initialize_file
JsonHistoryRepository(f) == IF f.kind = "missing" THEN ObjectFile(HistoryList(<<>>)) ELSE f

\* _load_data: JSONDecodeError and FileNotFoundError give {"history": []}
load_data(f) == IF f.kind \in {"missing", "text"} THEN ObjectFile(HistoryList(<<>>)) ELSE f

\* data.get("history", []): raises on a document that is not an object
get_history(data) ==
    IF data.kind # "object" THEN [raises |-> TRUE, history |-> HistoryList(<<>>)]
    ELSE [raises |-> FALSE,
          history |-> IF data.history.kind = "absent" THEN HistoryList(<<>>) ELSE data.history]

\* _load_results: the cache if built, else every record parsed; a raise leaves the cache unbuilt
load_results(f, cache, t) ==
    IF cache.built THEN [raises |-> FALSE, results |-> cache.results, cache |-> cache]
    ELSE LET h == get_history(load_data(f))
             items == h.history.items
             parsed == [i \in 1..Len(items) |-> from_dict(items[i], t)]
         IN  IF \/ h.raises
                \/ h.history.kind # "list"
                \/ \E i \in 1..Len(items) : parsed[i].raises
             THEN [raises |-> TRUE, results |-> <<>>, cache |-> cache]
             ELSE LET results == [i \in 1..Len(items) |-> parsed[i].result]
                  IN  [raises |-> FALSE, results |-> results, cache |-> Cache(results)]

\* variant: a built cache, not the file, is what save extends and writes back
json_save_from_cache(f, cache, result) ==
    LET h == get_history(load_data(f))
        items == IF cache.built THEN [i \in 1..Len(cache.results) |-> to_dict(cache.results[i])]
                 ELSE h.history.items
    IN  IF h.raises \/ h.history.kind # "list"
        THEN [raises |-> TRUE, file |-> f, cache |-> cache]
        ELSE [raises |-> FALSE,
              file |-> ObjectFile(HistoryList(Append(items, to_dict(result)))),
              cache |-> IF cache.built THEN Cache(Append(cache.results, result)) ELSE cache]

json_save(f, cache, result) ==
    LET h == get_history(load_data(f))
    IN  IF h.raises \/ h.history.kind # "list"
        THEN [raises |-> TRUE, file |-> f, cache |-> cache]
        ELSE [raises |-> FALSE,
              file |-> ObjectFile(HistoryList(Append(h.history.items, to_dict(result)))),
              cache |-> IF cache.built THEN Cache(Append(cache.results, result)) ELSE cache]

\* how _save_data may fail: open() refuses the file, or the write breaks off after
\* open(path, "w") has truncated it
WriteFaults == {"open", "write"}

\* save when _save_data raises: the exception leaves save before the cache is touched
json_save_failing(f, cache, result, fault) ==
    LET h == get_history(load_data(f))
    IN  IF h.raises \/ h.history.kind # "list"
        THEN [raises |-> TRUE, file |-> f, cache |-> cache]
        ELSE [raises |-> TRUE,
              file |-> IF fault = "open" THEN f ELSE TextFile,
              cache |-> cache]

\* variant: the reverse flag ignored
RECURSIVE sort_insert_ascending(_, _, _)
sort_insert_ascending(x, sorted, reverse) ==
    IF sorted = <<>> THEN <<x>>
    ELSE IF instant(Head(sorted).timestamp) > instant(x.timestamp)
    THEN <<x>> \o sorted
    ELSE <<Head(sorted)>> \o sort_insert_ascending(x, Tail(sorted), reverse)

\* list.sort(key=timestamp, reverse=...): stable in both directions
RECURSIVE sort_insert(_, _, _)
sort_insert(x, sorted, reverse) ==
    IF sorted = <<>> THEN <<x>>
    ELSE IF (IF reverse THEN instant(Head(sorted).timestamp) < instant(x.timestamp)
                        ELSE instant(Head(sorted).timestamp) > instant(x.timestamp))
    THEN <<x>> \o sorted
    ELSE <<Head(sorted)>> \o sort_insert(x, Tail(sorted), reverse)

RECURSIVE sort_onto(_, _, _)
sort_onto(sorted, rest, reverse) ==
    IF rest = <<>> THEN sorted
    ELSE sort_onto(sort_insert(Head(rest), sorted, reverse), Tail(rest), reverse)

sort_by_timestamp(results, reverse) == sort_onto(<<>>, results, reverse)

\* the default of get_all's sort parameter
DefaultSort == "desc"

json_get_all(f, cache, sort, t) ==
    LET l == load_results(f, cache, t)
    IN  [raises |-> l.raises,
         results |-> sort_by_timestamp(l.results, sort = "desc"),
         cache |-> l.cache]

json_get_best(f, cache, t) ==
    LET l == load_results(f, cache, t)
    IN  [raises |-> l.raises, best |-> get_best(l.results), cache |-> l.cache]

\* variant: the cache is kept when the file is emptied
json_clear_keeps_cache(f, cache) == [file |-> ObjectFile(HistoryList(<<>>)), cache |-> cache]

json_clear(f, cache) == [file |-> ObjectFile(HistoryList(<<>>)), cache |-> NoCache]

(* infrastructure/persistence/memory_history_repository.py *)

memory_get_all(results, sort) == sort_by_timestamp(results, sort = "desc")

memory_clear(results) == <<>>

---------------------------------------------------------------------------
(* The router driven by its caller *)

Init ==
    /\ current_game = None
    /\ selected_game_index = 0
    /\ history = <<>>
    /\ now = 1
    /\ words \in WordCorpora
    /\ file = MissingFile
    /\ results_cache = NoCache
    /\ user_preferences \in {UserPreferences(n) : n \in PreferredWordCounts}
    /\ game_result = None
    /\ record = EmptyRecord
    /\ args = NoArgs
    /\ stats = NoStats
    /\ preferences_file = MissingPreferences
    /\ other_results_cache = NoCache

\* the inputs the model explores: errors up to MaxErrors, submissions up to MaxAttempted
WithinBounds(g) ==
    /\ g.error_count <= MaxErrors
    /\ g.current_word_index <= MaxAttempted

Tick ==
    /\ now < MaxTime
    /\ now' = now + 1
    /\ UNCHANGED <<current_game, selected_game_index, history, words, file, results_cache, user_preferences, game_result, record, args, stats, preferences_file, other_results_cache>>

SelectGame ==
    \E index \in -1..Len(AVAILABLE_GAMES) :
        /\ selected_game_index' = select_game(selected_game_index, index).selected
        /\ UNCHANGED <<current_game, history, now, words, file, results_cache, user_preferences, game_result, record, args, stats, preferences_file, other_results_cache>>

NavigateGameSelection ==
    \E direction \in {-1, 1} :
        /\ selected_game_index' = navigate_game_selection(selected_game_index, direction)
        /\ UNCHANGED <<current_game, history, now, words, file, results_cache, user_preferences, game_result, record, args, stats, preferences_file, other_results_cache>>

StartGame ==
    \E config \in Configs :
        \E o \in StartOutcomes(current_game, selected_game_index, config) :
            /\ current_game' = o.current_game
            /\ UNCHANGED <<selected_game_index, history, now, words, file, results_cache, user_preferences, game_result, record, args, stats, preferences_file, other_results_cache>>

ProcessGameInput ==
    \E input_text \in RouterTexts, is_complete \in BOOLEAN :
        LET o == process_game_input(current_game, input_text, is_complete, now)
        IN  /\ current_game # None => WithinBounds(o.current_game)
            /\ current_game' = o.current_game
            /\ UNCHANGED <<selected_game_index, history, now, words, file, results_cache, user_preferences, game_result, record, args, stats, preferences_file, other_results_cache>>

FinishGame ==
    /\ current_game # None => Len(history) < MaxHistory
    /\ LET o == finish_game(current_game, history, now)
       IN  /\ current_game' = o.current_game
           /\ history' = o.history
    /\ UNCHANGED <<selected_game_index, now, words, file, results_cache, user_preferences, game_result, record, args, stats, preferences_file, other_results_cache>>

CancelGame ==
    /\ current_game' = cancel_game(current_game).current_game
    /\ UNCHANGED <<selected_game_index, history, now, words, file, results_cache, user_preferences, game_result, record, args, stats, preferences_file, other_results_cache>>

RestartGame ==
    \E keep_same_text \in BOOLEAN :
        \E o \in RestartOutcomes(current_game, selected_game_index, keep_same_text) :
            /\ current_game' = o.current_game
            /\ UNCHANGED <<selected_game_index, history, now, words, file, results_cache, user_preferences, game_result, record, args, stats, preferences_file, other_results_cache>>

ReturnToMainMenu ==
    LET o == return_to_main_menu(current_game, selected_game_index)
    IN  /\ current_game' = o.current_game
        /\ selected_game_index' = o.selected
        /\ UNCHANGED <<history, now, words, file, results_cache, user_preferences, game_result, record, args, stats, preferences_file, other_results_cache>>

\* get_game_stats / get_game_display_data: reads, nothing assigned
GetGameStats ==
    /\ current_game # None
    /\ get_current_stats(current_game, now).wpm >= 0
    /\ UNCHANGED vars

Next ==
    \/ Tick
    \/ GetGameStats
    \/ SelectGame
    \/ NavigateGameSelection
    \/ StartGame
    \/ ProcessGameInput
    \/ FinishGame
    \/ CancelGame
    \/ RestartGame
    \/ ReturnToMainMenu

Spec == Init /\ [][Next]_vars

---------------------------------------------------------------------------
(* One Session driven directly through its own methods.  The caller        *)
(* constructs a variant and initializes it once, as the router does, and   *)
(* then calls start, process_input, finish and cancel in any order.        *)

SessionInit ==
    /\ current_game \in {NewGame(AVAILABLE_GAMES[i]) : i \in 1..Len(AVAILABLE_GAMES)}
    /\ selected_game_index = 0
    /\ history = <<>>
    /\ now = 1
    /\ words \in WordCorpora
    /\ file = MissingFile
    /\ results_cache = NoCache
    /\ user_preferences = UserPreferences(DEFAULT_WORD_COUNT)
    /\ game_result = None
    /\ record = EmptyRecord
    /\ args = NoArgs
    /\ stats = NoStats
    /\ preferences_file = MissingPreferences
    /\ other_results_cache = NoCache

SessionInitialize ==
    \E config \in Configs :
        /\ current_game.status = NOT_STARTED
        /\ current_game' = initialize(current_game, config).game
        /\ UNCHANGED <<selected_game_index, history, now, words, file, results_cache, user_preferences, game_result, record, args, stats, preferences_file, other_results_cache>>

SessionStart ==
    \E content \in Contents(current_game) :
        /\ current_game' = start(current_game, content).game
        /\ UNCHANGED <<selected_game_index, history, now, words, file, results_cache, user_preferences, game_result, record, args, stats, preferences_file, other_results_cache>>

SessionProcessInput ==
    \E input_text \in Texts, is_complete \in BOOLEAN :
        LET o == process_input(current_game, input_text, is_complete, now)
        IN  /\ WithinBounds(o.game)
            /\ current_game' = o.game
            /\ UNCHANGED <<selected_game_index, history, now, words, file, results_cache, user_preferences, game_result, record, args, stats, preferences_file, other_results_cache>>

SessionFinish ==
    /\ current_game' = finish(current_game, now)
    /\ UNCHANGED <<selected_game_index, history, now, words, file, results_cache, user_preferences, game_result, record, args, stats, preferences_file, other_results_cache>>

SessionCancel ==
    /\ current_game' = cancel(current_game)
    /\ UNCHANGED <<selected_game_index, history, now, words, file, results_cache, user_preferences, game_result, record, args, stats, preferences_file, other_results_cache>>

SessionGetCurrentStats ==
    /\ current_game' = update_game_stats(current_game, now).game
    /\ UNCHANGED <<selected_game_index, history, now, words, file, results_cache, user_preferences, game_result, record, args, stats, preferences_file, other_results_cache>>

SessionNext ==
    \/ Tick
    \/ SessionGetCurrentStats
    \/ SessionInitialize
    \/ SessionStart
    \/ SessionProcessInput
    \/ SessionFinish
    \/ SessionCancel

SessionSpec == SessionInit /\ [][SessionNext]_vars

---------------------------------------------------------------------------
(* One JsonHistoryRepository driven directly through save, get_all, get_best  *)
(* and clear.  An InMemoryHistoryRepository (history) is given the same calls. *)

\* the Results handed to save
StoreWpms == {5000, 6000, 7000}
StoreResults ==
    {[wpm |-> w, accuracy |-> 10000, duration |-> 100, game_type |-> "Random Words",
      timestamp |-> utc_now(ts), total_characters |-> 5, correct_characters |-> 5, error_count |-> 0,
      is_new_record |-> rec, previous_best |-> IF rec THEN <<5000>> ELSE <<>>] :
        w \in StoreWpms, ts \in 1..MaxStored, rec \in BOOLEAN}

\* the repository is constructed on a path with no file or with an empty file
StoreInit ==
    /\ current_game = None
    /\ selected_game_index = 0
    /\ history = <<>>
    /\ now = 1
    /\ words = <<>>
    /\ file \in {JsonHistoryRepository(f) : f \in {MissingFile, TextFile}}
    /\ results_cache = NoCache
    /\ user_preferences = UserPreferences(DEFAULT_WORD_COUNT)
    /\ game_result = None
    /\ record = EmptyRecord
    /\ args = NoArgs
    /\ stats = NoStats
    /\ preferences_file = MissingPreferences
    /\ other_results_cache = NoCache

StoreSave ==
    \E result \in StoreResults :
        LET o == json_save(file, results_cache, result)
        IN  /\ Len(history) < MaxStored
            /\ file' = o.file
            /\ results_cache' = o.cache
            /\ history' = IF o.raises THEN history ELSE save(history, result)
            /\ UNCHANGED <<current_game, selected_game_index, now, words, user_preferences, game_result, record, args, stats, preferences_file, other_results_cache>>

StoreGetAll ==
    \E sort \in {"asc", "desc"} :
        /\ results_cache' = json_get_all(file, results_cache, sort, now).cache
        /\ memory_get_all(history, sort) \in Seq(StoreResults)
        /\ UNCHANGED <<current_game, selected_game_index, history, now, words, file, user_preferences, game_result, record, args, stats, preferences_file, other_results_cache>>

StoreGetBest ==
    /\ results_cache' = json_get_best(file, results_cache, now).cache
    /\ UNCHANGED <<current_game, selected_game_index, history, now, words, file, user_preferences, game_result, record, args, stats, preferences_file, other_results_cache>>

StoreClear ==
    LET o == json_clear(file, results_cache)
    IN  /\ file' = o.file
        /\ results_cache' = o.cache
        /\ history' = memory_clear(history)
        /\ UNCHANGED <<current_game, selected_game_index, now, words, user_preferences, game_result, record, args, stats, preferences_file, other_results_cache>>

StoreNext ==
    \/ StoreSave
    \/ StoreGetAll
    \/ StoreGetBest
    \/ StoreClear

StoreSpec == StoreInit /\ [][StoreNext]_vars

---------------------------------------------------------------------------
(* A JsonHistoryRepository over a file it finds, whatever its content *)

\* a record as save writes it, and one whose timestamp text cannot be parsed
StoredRecord == to_dict(CHOOSE r \in StoreResults : r.wpm = 5000 /\ r.timestamp = utc_now(1) /\ ~ r.is_new_record)
BadTimestampRecord == [StoredRecord EXCEPT !.timestamp = UnparsableText]

\* the contents of the history file the model starts from
LoadFiles ==
    {MissingFile, TextFile, ArrayFile,
     ObjectFile([kind |-> "absent", items |-> <<>>]),
     ObjectFile([kind |-> "null", items |-> <<>>]),
     ObjectFile(HistoryList(<<>>)),
     ObjectFile(HistoryList(<<StoredRecord>>)),
     ObjectFile(HistoryList(<<BadTimestampRecord>>)),
     ObjectFile(HistoryList(<<StoredRecord, BadTimestampRecord>>))}

LoadInit ==
    /\ current_game = None
    /\ selected_game_index = 0
    /\ history = <<>>
    /\ now = 1
    /\ words = <<>>
    /\ file \in LoadFiles
    /\ results_cache = NoCache
    /\ user_preferences = UserPreferences(DEFAULT_WORD_COUNT)
    /\ game_result = None
    /\ record = EmptyRecord
    /\ args = NoArgs
    /\ stats = NoStats
    /\ preferences_file = MissingPreferences
    /\ other_results_cache = NoCache

LoadSpec == LoadInit /\ [][StoreNext]_vars

---------------------------------------------------------------------------
(* A JsonHistoryRepository whose writes may fail *)

StoreSaveFails ==
    \E result \in StoreResults, fault \in WriteFaults :
        LET o == json_save_failing(file, results_cache, result, fault)
        IN  /\ file' = o.file
            /\ results_cache' = o.cache
            /\ UNCHANGED <<current_game, selected_game_index, history, now, words, user_preferences, game_result, record, args, stats, preferences_file, other_results_cache>>

FaultNext ==
    \/ StoreSave
    \/ StoreSaveFails
    \/ StoreGetAll
    \/ StoreGetBest
    \/ StoreClear

FaultSpec == StoreInit /\ [][FaultNext]_vars

---------------------------------------------------------------------------
(* GameResult.to_dict and GameResult.from_dict applied to one Result and one record *)

\* the datetimes of the model: naive ones, and aware ones at each offset
UtcOffsets == {0, 1}
Datetimes ==
    {datetime(w, FALSE, 0) : w \in 1..MaxTime}
        \cup {datetime(w, TRUE, o) : w \in 1..MaxTime, o \in UtcOffsets}

\* the Results handed to to_dict
VariantNames == {"", "Random Words"}
DictResults ==
    {[wpm |-> w, accuracy |-> 10000, duration |-> 100, game_type |-> name,
      timestamp |-> ts, total_characters |-> 5, correct_characters |-> 5, error_count |-> 0,
      is_new_record |-> rec, previous_best |-> best] :
        w \in {0, 5000}, name \in VariantNames, ts \in Datetimes,
        rec \in BOOLEAN, best \in {<<>>, <<5000>>}}

\* the records handed to from_dict: each text key missing or holding one of its
\* values, the numeric keys all present or all missing
Optional(key, values) == {EmptyRecord} \cup {key :> v : v \in values}
NumericKeys ==
    [wpm |-> 5000, accuracy |-> 10000, duration |-> 100,
     total_characters |-> 5, correct_characters |-> 5, error_count |-> 0]
DictRecords ==
    {n @@ gt @@ g @@ ts @@ d :
        n \in {NumericKeys, EmptyRecord},
        gt \in Optional("game_type", VariantNames),
        g \in Optional("game", {"", "Phrase Typing"}),
        ts \in Optional("timestamp", {EmptyText} \cup {isoformat(dt) : dt \in Datetimes}),
        d \in Optional("date", {isoformat(datetime(MaxTime + 1, FALSE, 0)),
                                isoformat(datetime(MaxTime + 1, TRUE, 1))})}

DictInit ==
    /\ current_game = None
    /\ selected_game_index = 0
    /\ history = <<>>
    /\ now \in 1..MaxTime
    /\ words = <<>>
    /\ file = MissingFile
    /\ results_cache = NoCache
    /\ user_preferences = UserPreferences(DEFAULT_WORD_COUNT)
    /\ \/ game_result \in DictResults /\ record = EmptyRecord
       \/ game_result = None /\ record \in DictRecords
    /\ args = NoArgs
    /\ stats = NoStats
    /\ preferences_file = MissingPreferences
    /\ other_results_cache = NoCache

ToDict ==
    /\ game_result # None
    /\ record' = to_dict(game_result)
    /\ UNCHANGED <<current_game, selected_game_index, history, now, words, file, results_cache,
                   user_preferences, game_result, args, stats, preferences_file, other_results_cache>>

FromDict ==
    LET o == from_dict(record, now)
    IN  /\ ~ o.raises
        /\ game_result' = o.result
        /\ UNCHANGED <<current_game, selected_game_index, history, now, words, file,
                       results_cache, user_preferences, record, args, stats, preferences_file, other_results_cache>>

DictNext ==
    \/ ToDict
    \/ FromDict

DictSpec == DictInit /\ [][DictNext]_vars

---------------------------------------------------------------------------
(* calculate_wpm and calculate_accuracy applied to one pair of word lists *)

\* every list of at most MaxWords texts
WordLists == UNION {[1..n -> Texts] : n \in 0..MaxWords}

StatsInit ==
    /\ current_game = None
    /\ selected_game_index = 0
    /\ history = <<>>
    /\ now = 1
    /\ words = <<>>
    /\ file = MissingFile
    /\ results_cache = NoCache
    /\ user_preferences = UserPreferences(DEFAULT_WORD_COUNT)
    /\ game_result = None
    /\ record = EmptyRecord
    /\ args \in {Args(typed_words, target_words, elapsed_time_seconds, typo_count) :
                    typed_words \in WordLists, target_words \in WordLists,
                    elapsed_time_seconds \in 0..MaxElapsed, typo_count \in 0..MaxErrors}
    /\ stats = NoStats
    /\ preferences_file = MissingPreferences
    /\ other_results_cache = NoCache

CalculateWpm ==
    /\ stats' = [stats EXCEPT !.wpm = <<calculate_wpm(args.typed_words, args.target_words,
                                                      args.elapsed_time_seconds)>>]
    /\ UNCHANGED <<current_game, selected_game_index, history, now, words, file, results_cache,
                   user_preferences, game_result, record, args, preferences_file, other_results_cache>>

CalculateAccuracy ==
    /\ stats' = [stats EXCEPT !.accuracy = <<calculate_accuracy(args.typed_words, args.target_words,
                                                                args.typo_count)>>]
    /\ UNCHANGED <<current_game, selected_game_index, history, now, words, file, results_cache,
                   user_preferences, game_result, record, args, preferences_file, other_results_cache>>

StatsNext ==
    \/ CalculateWpm
    \/ CalculateAccuracy

StatsSpec == StatsInit /\ [][StatsNext]_vars

---------------------------------------------------------------------------
(* One random-words Session of MIN_WORD_COUNT words typed through without a  *)
(* mistake: every token submitted whole and equal to its target token, then  *)
(* finish.                                                                   *)

\* the word corpora of the games played: fewer words than the game asks for
PlayCorpora == {<<<<"a", "b">>>>, <<<<"a">>, <<"b", "a">>>>}

PlayInit ==
    /\ words \in PlayCorpora
    /\ \E content \in get_random_words(MIN_WORD_COUNT) :
          current_game = start(initialize(NewGame("RandomWordsGame"), <<MIN_WORD_COUNT>>).game,
                               content).game
    /\ selected_game_index = 0
    /\ history = <<>>
    /\ now = 1
    /\ file = MissingFile
    /\ results_cache = NoCache
    /\ user_preferences = UserPreferences(DEFAULT_WORD_COUNT)
    /\ game_result = None
    /\ record = EmptyRecord
    /\ args = NoArgs
    /\ stats = NoStats
    /\ preferences_file = MissingPreferences
    /\ other_results_cache = NoCache

PlaySubmitWord ==
    /\ current_game.current_word_index < Len(current_game.target_words)
    /\ current_game' = process_input(current_game,
                                     current_game.target_words[current_game.current_word_index + 1],
                                     TRUE, now).game
    /\ UNCHANGED <<selected_game_index, history, now, words, file, results_cache, user_preferences, game_result, record, args, stats, preferences_file, other_results_cache>>

PlayFinish ==
    /\ current_game.current_word_index = Len(current_game.target_words)
    /\ current_game' = finish(current_game, now)
    /\ UNCHANGED <<selected_game_index, history, now, words, file, results_cache, user_preferences, game_result, record, args, stats, preferences_file, other_results_cache>>

PlayNext ==
    \/ Tick
    \/ PlaySubmitWord
    \/ PlayFinish

PlaySpec == PlayInit /\ [][PlayNext]_vars

---------------------------------------------------------------------------
(* The preferences: loaded from the file, set from the word-count dialog, saved *)

\* the word counts found in a file; those inside the range can be set in the dialog
PrefCounts ==
    {MIN_WORD_COUNT - 1, MIN_WORD_COUNT, MIN_WORD_COUNT + 1, DEFAULT_WORD_COUNT, 50, 100,
     MAX_WORD_COUNT - 1, MAX_WORD_COUNT, MAX_WORD_COUNT + 1}
ValidCounts == {n \in PrefCounts : MIN_WORD_COUNT <= n /\ n <= MAX_WORD_COUNT}

PrefsFiles ==
    {PreferencesFile(kind, NoWordCount) : kind \in {"missing", "unreadable", "text", "nested", "value"}}
        \cup {PreferencesFile("object", wc) :
                wc \in {NoWordCount, BadWordCount} \cup {WordCountValue("int", n) : n \in PrefCounts}}

PrefsInit ==
    /\ current_game = None
    /\ selected_game_index = 0
    /\ history = <<>>
    /\ now = 1
    /\ words = <<>>
    /\ file = MissingFile
    /\ results_cache = NoCache
    /\ user_preferences = UserPreferences(DEFAULT_WORD_COUNT)
    /\ game_result = None
    /\ record = EmptyRecord
    /\ args = NoArgs
    /\ stats = NoStats
    /\ preferences_file \in PrefsFiles
    /\ other_results_cache = NoCache

\* config.py: user_preferences = _preferences_repo.load()
PrefsLoad ==
    LET o == preferences_load(preferences_file)
    IN  /\ ~ o.raises
        /\ user_preferences' = o.preferences
        /\ UNCHANGED <<current_game, selected_game_index, history, now, words, file, results_cache, game_result, record, args, stats, preferences_file, other_results_cache>>

\* the dialog dismisses with a value inside the range only
PrefsSetWordCount ==
    \E value \in ValidCounts :
        /\ user_preferences' = [user_preferences EXCEPT !.word_count = value]
        /\ UNCHANGED <<current_game, selected_game_index, history, now, words, file, results_cache, game_result, record, args, stats, preferences_file, other_results_cache>>

PrefsSave ==
    \E fault \in SaveFaults :
        /\ preferences_file' = preferences_save(preferences_file, user_preferences, fault)
        /\ UNCHANGED <<current_game, selected_game_index, history, now, words, file, results_cache, user_preferences, game_result, record, args, stats, other_results_cache>>

PrefsNext ==
    \/ PrefsLoad
    \/ PrefsSetWordCount
    \/ PrefsSave

PrefsSpec == PrefsInit /\ [][PrefsNext]_vars

---------------------------------------------------------------------------
(* The Router with the one Session a single start_game installed: inputs,     *)
(* reads and finish_game, and no further start, restart, cancel or return.    *)

OneSessionInit ==
    /\ words \in WordCorpora
    /\ user_preferences = UserPreferences(MIN_WORD_COUNT)
    /\ selected_game_index \in 0..(Len(AVAILABLE_GAMES) - 1)
    /\ \E o \in StartOutcomes(None, selected_game_index, <<>>) :
          /\ o.ok
          /\ current_game = o.current_game
    /\ history = <<>>
    /\ now = 1
    /\ file = MissingFile
    /\ results_cache = NoCache
    /\ game_result = None
    /\ record = EmptyRecord
    /\ args = NoArgs
    /\ stats = NoStats
    /\ preferences_file = MissingPreferences
    /\ other_results_cache = NoCache

\* finish_game called on the installed Session, the first time or again
OneSessionFinishGame ==
    /\ Len(history) <= MaxHistory
    /\ LET o == finish_game(current_game, history, now)
       IN  /\ current_game' = o.current_game
           /\ history' = o.history
    /\ UNCHANGED <<selected_game_index, now, words, file, results_cache, user_preferences, game_result, record, args, stats, preferences_file, other_results_cache>>

OneSessionNext ==
    \/ Tick
    \/ ProcessGameInput
    \/ OneSessionFinishGame

OneSessionSpec == OneSessionInit /\ [][OneSessionNext]_vars

---------------------------------------------------------------------------
(* Two JsonHistoryRepository instances on one file, their calls one after the  *)
(* other: save and the reads on either instance.  history is the list of all   *)
(* Results saved through either, in the order of the calls.                    *)

SharedSave ==
    \E result \in StoreResults :
        LET o == json_save(file, results_cache, result)
        IN  /\ Len(history) < MaxShared
            /\ file' = o.file
            /\ results_cache' = o.cache
            /\ history' = IF o.raises THEN history ELSE save(history, result)
            /\ UNCHANGED <<current_game, selected_game_index, now, words, user_preferences, game_result, record, args, stats, preferences_file, other_results_cache>>

OtherSave ==
    \E result \in StoreResults :
        LET o == json_save(file, other_results_cache, result)
        IN  /\ Len(history) < MaxShared
            /\ file' = o.file
            /\ other_results_cache' = o.cache
            /\ history' = IF o.raises THEN history ELSE save(history, result)
            /\ UNCHANGED <<current_game, selected_game_index, now, words, results_cache, user_preferences, game_result, record, args, stats, preferences_file>>

OtherGetAll ==
    \E sort \in {"asc", "desc"} :
        /\ other_results_cache' = json_get_all(file, other_results_cache, sort, now).cache
        /\ UNCHANGED <<current_game, selected_game_index, history, now, words, file, results_cache, user_preferences, game_result, record, args, stats, preferences_file>>

OtherGetBest ==
    /\ other_results_cache' = json_get_best(file, other_results_cache, now).cache
    /\ UNCHANGED <<current_game, selected_game_index, history, now, words, file, results_cache, user_preferences, game_result, record, args, stats, preferences_file>>

SharedNext ==
    \/ SharedSave
    \/ StoreGetAll
    \/ StoreGetBest
    \/ OtherSave
    \/ OtherGetAll
    \/ OtherGetBest

SharedSpec == StoreInit /\ [][SharedNext]_vars

---------------------------------------------------------------------------
(* Properties of the Session and the router *)

\* the live partial input of the token being typed, as typed_words holds it
LivePartial(g) ==
    IF Len(g.typed_words) > g.current_word_index
    THEN g.typed_words[g.current_word_index + 1]
    ELSE <<>>

\* text is an initial segment of word
IsPrefixOf(text, word) == \E n \in 0..Len(word) : text = SubSeq(word, 1, n)

\* C1: under every sequence of router operations the installed Session has
\* 0 <= cursor <= len(target_text).
C1_CursorInRange ==
    current_game # None =>
        /\ 0 <= current_game.current_word_index
        /\ current_game.current_word_index <= Len(current_game.target_words)

\* C1 witness: a Session whose cursor has reached the end of a non-empty target
C1_Witness ==
    /\ current_game # None
    /\ Len(current_game.target_words) >= 1
    /\ current_game.current_word_index = Len(current_game.target_words)

\* C2 (as claimed): process_input on a Session that is not ACTIVE returns
\* "inactive" and changes no field, except the first non-empty input to a
\* READY Session; so a terminal Session never becomes ACTIVE again.
C2_InactiveMutatesNothing ==
    current_game # None =>
        \A input_text \in Texts, is_complete \in BOOLEAN :
            LET o == process_input(current_game, input_text, is_complete, now)
            IN  /\ (/\ current_game.status # ACTIVE
                    /\ ~ (current_game.status = READY /\ input_text # <<>>))
                   => (o.status = "inactive" /\ o.game = current_game)
                /\ is_finished(current_game) => o.game.status # ACTIVE

\* C3 (as claimed): a second finish() on a finished Session, at whatever later
\* time, returns the Result of the first and leaves end_time alone.
C3_FinishIdempotent ==
    [][(/\ current_game.status = COMPLETED
        /\ current_game.result # None
        /\ current_game'.result # None)
       => (/\ current_game'.result = current_game.result
           /\ current_game'.end_time = current_game.end_time)]_vars

\* C4: within one Session error_count never decreases, and a partial input
\* no longer than the preceding partial input of the same token leaves it unchanged.
C4_ErrorCountMonotone ==
    /\ [](\A input_text \in Texts :
            Len(input_text) <= Len(LivePartial(current_game))
                => process_input(current_game, input_text, FALSE, now).game.error_count
                       = current_game.error_count)
    /\ [][current_game'.error_count >= current_game.error_count]_vars

\* C4 witness: an error was counted and the wrong character deleted again
C4_Witness ==
    /\ current_game.status = ACTIVE
    /\ current_game.error_count = 1
    /\ current_game.typed_words = << <<>> >>
    /\ current_game.current_word_index = 0

\* C5: a partial input on an ACTIVE Session with cursor < len(target_text) adds 1
\* to error_count exactly when it is non-empty, longer than the preceding partial
\* input of the token and no prefix of the target token; it replaces
\* typed_text[cursor] and leaves cursor alone.
C5_PartialInput ==
    \A input_text \in Texts :
        (/\ current_game.status = ACTIVE
         /\ current_game.current_word_index < Len(current_game.target_words))
        => LET g == process_input(current_game, input_text, FALSE, now).game
               target == current_game.target_words[current_game.current_word_index + 1]
               wrong == /\ input_text # <<>>
                        /\ Len(input_text) > Len(LivePartial(current_game))
                        /\ ~ IsPrefixOf(input_text, target)
           IN  /\ g.error_count = current_game.error_count + (IF wrong THEN 1 ELSE 0)
               /\ g.typed_words[g.current_word_index + 1] = input_text
               /\ g.current_word_index = current_game.current_word_index

\* C5 witness: a counted wrong partial input is the live input of an ACTIVE Session
C5_Witness ==
    /\ current_game.status = ACTIVE
    /\ current_game.current_word_index < Len(current_game.target_words)
    /\ current_game.error_count >= 1
    /\ LivePartial(current_game) # <<>>
    /\ ~ IsPrefixOf(LivePartial(current_game),
                    current_game.target_words[current_game.current_word_index + 1])

\* C6 (as claimed): while the live input holds an uncorrected wrong character,
\* a partial input that only appends the target's character of that position
\* does not increase error_count.
C6_MistakeCountedOnce ==
    \A input_text \in Texts :
        LET live == LivePartial(current_game)
            k == current_game.current_word_index
        IN  (/\ current_game.status = ACTIVE
             /\ k < Len(current_game.target_words)
             /\ ~ IsPrefixOf(live, current_game.target_words[k + 1])
             /\ Len(live) < Len(current_game.target_words[k + 1])
             /\ input_text = Append(live, current_game.target_words[k + 1][Len(live) + 1]))
            => process_input(current_game, input_text, FALSE, now).game.error_count
                   = current_game.error_count

\* C7: a complete submission on an ACTIVE Session with cursor < len(target_text)
\* stores the text verbatim at typed_text[cursor], advances cursor by one, empties
\* the live and previous partial inputs and leaves error_count alone.
C7_CompleteSubmission ==
    \A input_text \in Texts :
        (/\ current_game.status = ACTIVE
         /\ current_game.current_word_index < Len(current_game.target_words))
        => LET g == process_input(current_game, input_text, TRUE, now).game
           IN  /\ g.typed_words[current_game.current_word_index + 1] = input_text
               /\ g.current_word_index = current_game.current_word_index + 1
               /\ g.current_input = <<>>
               /\ g.previous_input = <<>>
               /\ g.error_count = current_game.error_count

\* C7 witness: a wrong word was committed and the Session moved on to the next token
C7_Witness ==
    /\ current_game.status = ACTIVE
    /\ current_game.current_word_index = 1
    /\ Len(current_game.typed_words) = 1
    /\ current_game.typed_words[1] # current_game.target_words[1]
    /\ current_game.current_input = <<>>

\* C8 (as claimed): process_input completes a Session exactly when a complete
\* submission leaves cursor = len(target_text), and then len(typed_text) = len(target_text).
C8_CompletedAtEnd ==
    current_game # None =>
        \A input_text \in Texts, is_complete \in BOOLEAN :
            LET o == process_input(current_game, input_text, is_complete, now)
                completes == current_game.status # COMPLETED /\ o.game.status = COMPLETED
            IN  /\ completes <=> (/\ current_game.status # COMPLETED
                                   /\ o.status # "inactive"
                                   /\ is_complete
                                   /\ o.game.current_word_index = Len(o.game.target_words))
                /\ completes => Len(o.game.typed_words) = Len(o.game.target_words)

\* C9: start_time is unset while the Session is READY; an empty text leaves a READY
\* Session untouched and returns "inactive"; the first non-empty text makes it
\* ACTIVE and captures start_time; once captured, start_time never changes.
C9_SingleTimerTrigger ==
    /\ [](current_game.status = READY =>
            /\ current_game.start_time = 0
            /\ \A is_complete \in BOOLEAN :
                  LET o == process_input(current_game, <<>>, is_complete, now)
                  IN  o.status = "inactive" /\ o.game = current_game
            /\ \A input_text \in Texts \ {<<>>}, is_complete \in BOOLEAN :
                  /\ start_timer(current_game, input_text, now).status = ACTIVE
                  /\ process_input(current_game, input_text, is_complete, now).game.start_time = now)
    /\ [][current_game.start_time # 0 =>
            /\ current_game'.start_time = current_game.start_time
            /\ \A input_text \in Texts, is_complete \in BOOLEAN :
                  process_input(current_game, input_text, is_complete, now').game.start_time
                      = current_game.start_time
            /\ finish(current_game, now').start_time = current_game.start_time]_vars

\* C9 witness: a Session timed at one instant and finished at a later one
C9_Witness ==
    /\ current_game.status = COMPLETED
    /\ current_game.result # None
    /\ current_game.start_time # 0
    /\ current_game.end_time > current_game.start_time

\* C10 (as claimed): finish() sets COMPLETED on a READY or ACTIVE Session, leaves a
\* COMPLETED Session COMPLETED and leaves a CANCELLED Session CANCELLED.
C10_FinishKeepsTerminal ==
    /\ current_game.status \in {READY, ACTIVE, COMPLETED}
          => finish(current_game, now).status = COMPLETED
    /\ current_game.status = CANCELLED
          => finish(current_game, now).status = CANCELLED

\* sum of len(target_text[i]) over the first n tokens
RECURSIVE AttemptedTargetChars(_, _)
AttemptedTargetChars(g, n) ==
    IF n = 0 THEN 0 ELSE Len(g.target_words[n]) + AttemptedTargetChars(g, n - 1)

\* sum of len(typed_text[i]) over the first n tokens typed exactly as their target
RECURSIVE AttemptedCorrectChars(_, _)
AttemptedCorrectChars(g, n) ==
    IF n = 0 THEN 0
    ELSE (IF g.typed_words[n] = g.target_words[n] THEN Len(g.typed_words[n]) ELSE 0)
            + AttemptedCorrectChars(g, n - 1)

\* the Session with another text in the slot of the token being typed
WithLivePartial(g, text) ==
    IF Len(g.typed_words) > g.current_word_index
    THEN [g EXCEPT !.typed_words[g.current_word_index + 1] = text]
    ELSE g

\* C11: the Result built by finish() counts attempted tokens only:
\* total_characters sums the target tokens before the cursor, correct_characters
\* sums the typed tokens before the cursor that equal their target, error_count is
\* the running counter and the variant is the variant's name; so correct_characters
\* <= total_characters, and the text of the live partial input changes none of them.
C11_ResultCountsAttempted ==
    LET g == current_game
        r == finish(g, now).result
    IN  /\ r.total_characters = AttemptedTargetChars(g, g.current_word_index)
        /\ r.correct_characters = AttemptedCorrectChars(g, g.current_word_index)
        /\ r.error_count = g.error_count
        /\ r.game_type = g.name
        /\ g.name = (IF g.cls = "RandomWordsGame" THEN "Random Words" ELSE "Phrase Typing")
        /\ r.correct_characters <= r.total_characters
        /\ \A text \in Texts :
              LET q == finish(WithLivePartial(g, text), now).result
              IN  /\ q.total_characters = r.total_characters
                  /\ q.correct_characters = r.correct_characters
                  /\ q.error_count = r.error_count
                  /\ q.game_type = r.game_type

\* C11 witness: a Session finished with one token attempted, typed wrongly, an error
\* counted and a live partial input on the next token
C11_Witness ==
    /\ current_game.status = COMPLETED
    /\ current_game.result # None
    /\ current_game.current_word_index = 1
    /\ current_game.result.total_characters = 2
    /\ current_game.result.correct_characters = 0
    /\ current_game.result.error_count >= 1
    /\ LivePartial(current_game) # <<>>

\* C12: no Result of a cancelled Session reaches the History Store.  Router cancel,
\* restart and return_to_menu leave the store as it is; Session.cancel sets CANCELLED
\* and clears the stored Result; after Router cancel or return_to_menu no Session is
\* installed, so a following Router finish returns absent and commits nothing; and
\* the store only ever grows by the Result of an installed Session that is not cancelled.
C12_CancelCommitsNothing ==
    /\ [](LET c == cancel_game(current_game)
              m == return_to_main_menu(current_game, selected_game_index)
              fc == finish_game(c.current_game, history, now)
              fm == finish_game(m.current_game, history, now)
          IN  /\ current_game # None =>
                    /\ cancel(current_game).status = CANCELLED
                    /\ cancel(current_game).result = None
                    /\ current_game.status # CANCELLED
                    /\ c.ok
              /\ c.current_game = None
              /\ m.current_game = None
              /\ fc.result = None /\ fc.history = history
              /\ fm.result = None /\ fm.history = history)
    /\ [][/\ (CancelGame \/ RestartGame \/ ReturnToMainMenu) => history' = history
          /\ history' # history =>
                /\ current_game # None
                /\ current_game.status # CANCELLED
                /\ current_game'.status = COMPLETED
                /\ history' = Append(history, finish_game(current_game, history, now).result)]_vars

\* C12 witness: a Session with text typed is installed over a store that holds a Result
C12_Witness ==
    /\ current_game # None
    /\ current_game.status = ACTIVE
    /\ LivePartial(current_game) # <<>>
    /\ history # <<>>
    /\ cancel_game(current_game).current_game = None

\* the greatest wpm among the Results of a non-empty store
MaxWpm(results) ==
    CHOOSE w \in {results[i].wpm : i \in 1..Len(results)} :
        \A i \in 1..Len(results) : results[i].wpm <= w

\* C13: Router finish stamps the returned Result with
\* is_new_record = (wpm > 0 and (the store was empty before the commit or wpm exceeds
\* the greatest wpm stored before the commit)) and previous_best = that prior greatest
\* wpm, absent for an empty store; the Result is not compared against itself.
C13_RecordFlags ==
    current_game # None =>
        \A t \in now..(MaxTime + 2) :
            LET r == finish_game(current_game, history, t).result
            IN  /\ r.is_new_record <=> (/\ r.wpm > 0
                                        /\ (history = <<>> \/ r.wpm > MaxWpm(history)))
                /\ r.previous_best = (IF history = <<>> THEN <<>> ELSE <<MaxWpm(history)>>)
                /\ r.wpm = finish(current_game, t).result.wpm

\* C13 witness: the store holds a Result of positive wpm and the installed Session,
\* typed correctly and timed, finishes with that same wpm at one instant (no record,
\* previous_best present) and with a lower one later
C13_Witness ==
    /\ current_game # None
    /\ history # <<>>
    /\ history[1].wpm > 0
    /\ \E t \in now..(MaxTime + 2) :
          LET r == finish_game(current_game, history, t).result
          IN  r.wpm = history[1].wpm /\ ~ r.is_new_record /\ r.previous_best = <<r.wpm>>
    /\ \E t \in now..(MaxTime + 2) :
          LET r == finish_game(current_game, history, t).result
          IN  r.wpm > 0 /\ r.wpm < history[1].wpm /\ ~ r.is_new_record

Persisted(r) ==
    <<r.wpm, r.accuracy, r.duration, r.game_type, r.timestamp,
      r.total_characters, r.correct_characters, r.error_count>>

\* C15: Router finish with a Session installed returns a Result and appends exactly
\* one record to the History Store, with the persisted fields of the returned Result
\* (also when the record is written to and read back from a JSON file); with no
\* Session installed it returns absent and leaves the store unchanged.
C15_FinishCommitsOne ==
    \A t \in now..(MaxTime + 2) :
        LET o == finish_game(current_game, history, t)
        IN  IF current_game = None
            THEN o.result = None /\ o.history = history
            ELSE /\ o.result # None
                 /\ Len(o.history) = Len(history) + 1
                 /\ SubSeq(o.history, 1, Len(history)) = history
                 /\ Persisted(o.history[Len(o.history)]) = Persisted(o.result)
                 /\ LET j == json_save(JsonHistoryRepository(MissingFile), NoCache, o.result)
                        l == load_results(j.file, NoCache, t)
                    IN  /\ ~ j.raises /\ ~ l.raises
                        /\ Len(l.results) = 1
                        /\ Persisted(l.results[1]) = Persisted(o.result)

\* C15 witness: a Session with a token attempted was finished through the router and
\* the store holds its one Result
C15_Witness ==
    /\ current_game # None
    /\ current_game.result # None
    /\ current_game.current_word_index = 1
    /\ Len(history) = 1
    /\ Persisted(history[1]) = Persisted(current_game.result)
    /\ history[1].total_characters > 0

\* C16: after any sequence of save and clear on one store, get_best returns absent
\* exactly when no Result was saved since the last clear, and otherwise a stored
\* Result whose wpm is at least the wpm of every stored Result.
C16_GetBest ==
    LET b == json_get_best(file, results_cache, now)
        m == get_best(history)
    IN  /\ ~ b.raises
        /\ b.best = None <=> history = <<>>
        /\ m = None <=> history = <<>>
        /\ history # <<>> =>
              /\ b.best.wpm = MaxWpm(history)
              /\ \E i \in 1..Len(history) : Persisted(history[i]) = Persisted(b.best)
              /\ m.wpm = MaxWpm(history)
              /\ \E i \in 1..Len(history) : history[i] = m

\* C16 witness: Results of wpm 50, 70 and 60 were saved in this order on a store whose
\* cache was built, and get_best returns the one of wpm 70
C16_Witness ==
    /\ Len(history) = 3
    /\ <<history[1].wpm, history[2].wpm, history[3].wpm>> = <<5000, 7000, 6000>>
    /\ results_cache.built
    /\ json_get_best(file, results_cache, now).best.wpm = 7000

\* the sequence in reverse order
Reverse(seq) == [i \in 1..Len(seq) |-> seq[Len(seq) + 1 - i]]

\* both sequences hold the same records (by persisted fields) the same number of times
SameRecords(xs, ys) ==
    /\ Len(xs) = Len(ys)
    /\ \A i \in 1..Len(xs) :
          Cardinality({j \in 1..Len(xs) : Persisted(xs[j]) = Persisted(xs[i])})
              = Cardinality({j \in 1..Len(ys) : Persisted(ys[j]) = Persisted(xs[i])})

NewestFirst(xs) == \A i, j \in 1..Len(xs) : i < j => instant(xs[i].timestamp) >= instant(xs[j].timestamp)
OldestFirst(xs) == \A i, j \in 1..Len(xs) : i < j => instant(xs[i].timestamp) <= instant(xs[j].timestamp)

\* C17: get_all returns the stored Results ordered by timestamp, newest first for
\* 'desc' (the default) and oldest first for 'asc', whatever the order of the saves;
\* with pairwise distinct timestamps 'asc' is the exact reverse of 'desc'; and
\* get_all neither reorders nor changes the store.
C17_GetAllOrdered ==
    /\ [](LET d == json_get_all(file, results_cache, "desc", now)
              a == json_get_all(file, results_cache, "asc", now)
              md == memory_get_all(history, "desc")
              ma == memory_get_all(history, "asc")
          IN  /\ DefaultSort = "desc"
              /\ ~ d.raises /\ ~ a.raises
              /\ NewestFirst(d.results) /\ NewestFirst(md)
              /\ OldestFirst(a.results) /\ OldestFirst(ma)
              /\ SameRecords(d.results, history) /\ SameRecords(a.results, history)
              /\ SameRecords(md, history) /\ SameRecords(ma, history)
              /\ (\A i, j \in 1..Len(history) :
                      i # j => history[i].timestamp # history[j].timestamp)
                   => (a.results = Reverse(d.results) /\ ma = Reverse(md))
              /\ json_get_all(file, d.cache, "asc", now).results = a.results
              /\ json_get_all(file, a.cache, "desc", now).results = d.results
              /\ results_cache.built => (d.cache = results_cache /\ a.cache = results_cache))
    /\ [][StoreGetAll =>
            /\ file' = file
            /\ history' = history
            /\ results_cache.built => results_cache' = results_cache]_vars

\* C17 witness: three Results with pairwise distinct timestamps were saved out of
\* order, the newest in the middle, and read back through a built cache
C17_Witness ==
    /\ Len(history) = 3
    /\ <<history[1].timestamp.wall, history[2].timestamp.wall, history[3].timestamp.wall>> = <<2, 3, 1>>
    /\ results_cache.built
    /\ json_get_all(file, results_cache, "desc", now).results[1].timestamp = utc_now(3)
    /\ json_get_all(file, results_cache, "asc", now).results[1].timestamp = utc_now(1)

\* the two sequences hold the same records (by persisted fields) in the same order
SameSequence(xs, ys) ==
    /\ Len(xs) = Len(ys)
    /\ \A i \in 1..Len(xs) : Persisted(xs[i]) = Persisted(ys[i])

C19_CacheCoherent ==
    /\ [](/\ \A sort \in {"asc", "desc"} :
                json_get_all(file, results_cache, sort, now).results
                    = json_get_all(JsonHistoryRepository(file), NoCache, sort, now).results
           /\ json_get_best(file, results_cache, now).best
                  = json_get_best(JsonHistoryRepository(file), NoCache, now).best)
    /\ [][(StoreSave /\ results_cache.built) =>
            /\ results_cache'.built
            /\ Len(results_cache'.results) = Len(results_cache.results) + 1
            /\ SubSeq(results_cache'.results, 1, Len(results_cache.results))
                  = results_cache.results]_vars

\* the file is missing, is not valid JSON, is not an object with a 'history' list,
\* or holds a record whose timestamp cannot be parsed
Malformed(f) ==
    \/ f.kind # "object"
    \/ f.history.kind # "list"
    \/ \E i \in 1..Len(f.history.items) : ~ f.history.items[i].timestamp.iso

\* C20 (as claimed): whatever the content of the history file, a malformed one is
\* read as an empty store: get_all returns an empty sequence and get_best returns
\* absent, and neither raises.
C20_MalformedIsEmpty ==
    Malformed(file) =>
        /\ \A sort \in {"asc", "desc"} :
              LET a == json_get_all(file, results_cache, sort, now)
              IN  ~ a.raises /\ a.results = <<>>
        /\ LET b == json_get_best(file, results_cache, now)
           IN  ~ b.raises /\ b.best = None

\* C21 (as claimed): when the write inside save fails, save returns a failure value
\* instead of raising, the unsaved Result is not added to the cache, and get_all
\* still returns what the store returned before the failed save.
C21_FailedWriteReported ==
    \A result \in StoreResults, fault \in WriteFaults :
        LET before == json_get_all(file, results_cache, "asc", now)
            o == json_save_failing(file, results_cache, result, fault)
            after == json_get_all(o.file, o.cache, "asc", now)
        IN  /\ ~ o.raises
            /\ o.cache.results = results_cache.results
            /\ ~ after.raises
            /\ after.results = before.results

\* the selections a caller may have set, in and out of the catalog
Selections == -1..Len(AVAILABLE_GAMES)

\* the word count start_game hands to initialize: the caller's, else the preference
RequestedWordCount(config) ==
    IF config = <<>> THEN user_preferences.word_count ELSE config[1]

\* start_game cannot succeed with this selection and config
MustFail(sel, config) ==
    \/ sel < 0
    \/ sel >= Len(AVAILABLE_GAMES)
    \/ /\ AVAILABLE_GAMES[sel + 1] = "RandomWordsGame"
       /\ (RequestedWordCount(config) < MIN_WORD_COUNT
              \/ RequestedWordCount(config) > MAX_WORD_COUNT)

\* C22 (as claimed): when Router start fails, no Session is installed afterwards,
\* whether or not one was installed before the call.
C22_FailedStartClearsSession ==
    \A sel \in Selections, config \in Configs :
        \A o \in StartOutcomes(current_game, sel, config) :
            ~ o.ok => o.current_game = None

\* C22 (amended): Router start fails exactly when the selected index is out of range
\* or the variant's initialize or start fails; it then returns failure and installs
\* no new Session, the Session installed before the call (or none) staying as it
\* was; the selected index and the History Store are unchanged by start: the index
\* changes only in steps that keep or remove the Session, the store only in a finish.
C22_FailedStartInstallsNothing ==
    /\ [](\A sel \in Selections, config \in Configs :
             \A o \in StartOutcomes(current_game, sel, config) :
                 /\ o.ok <=> ~ MustFail(sel, config)
                 /\ ~ o.ok => o.current_game = current_game)
    /\ [][/\ selected_game_index' # selected_game_index
                => (current_game' = current_game \/ current_game' = None)
          /\ history' # history
                => (current_game' # None /\ current_game'.status = COMPLETED)]_vars

\* C22 witness: a Session with text typed is installed, the random-words variant is
\* selected, and a start with an out-of-range word count fails and leaves it installed
C22_Witness ==
    /\ current_game # None
    /\ current_game.status = ACTIVE
    /\ LivePartial(current_game) # <<>>
    /\ selected_game_index = 0
    /\ \E config \in Configs :
          \A o \in StartOutcomes(current_game, selected_game_index, config) :
              ~ o.ok /\ o.current_game = current_game

\* a Session as start leaves it: READY, nothing typed, nothing counted, timer unset
FreshSession(g) ==
    /\ g.status = READY
    /\ g.current_word_index = 0
    /\ g.typed_words = <<>>
    /\ g.error_count = 0
    /\ g.result = None
    /\ g.start_time = 0
    /\ g.end_time = 0
    /\ g.current_input = <<>>

\* C23: a successful Router start installs a fresh Session (READY, cursor 0, empty
\* typed_text, error_count 0, no Result, timer unset); for the random-words variant
\* with a non-empty word corpus the target text has exactly word_count tokens, the
\* caller's value or, when the config omits it, the Preferences word_count.
C23_StartInstallsFresh ==
    \A sel \in Selections, config \in Configs :
        \A o \in StartOutcomes(current_game, sel, config) :
            o.ok =>
                /\ o.current_game # None
                /\ FreshSession(o.current_game)
                /\ o.current_game.cls = AVAILABLE_GAMES[sel + 1]
                /\ (o.current_game.cls = "RandomWordsGame" /\ words # <<>>)
                      => Len(o.current_game.target_words) = RequestedWordCount(config)

\* C23 witness: with a stored preference other than the default, a random-words
\* Session was started over a non-empty corpus after an earlier Session was committed
C23_Witness ==
    /\ user_preferences.word_count # DEFAULT_WORD_COUNT
    /\ words # <<>>
    /\ history # <<>>
    /\ current_game # None
    /\ current_game.cls = "RandomWordsGame"
    /\ FreshSession(current_game)
    /\ Len(current_game.target_words) = user_preferences.word_count

\* C24: select(index) sets the selection and returns success exactly when
\* 0 <= index < catalog size, and otherwise returns failure and leaves the selection;
\* after any sequence of router calls the selected index lies in [0, catalog size);
\* return_to_menu sets it to 0.
C24_SelectionInRange ==
    /\ 0 <= selected_game_index
    /\ selected_game_index < Len(AVAILABLE_GAMES)
    /\ \A index \in -2..(Len(AVAILABLE_GAMES) + 1) :
          LET r == select_game(selected_game_index, index)
          IN  /\ r.ok <=> (0 <= index /\ index < Len(AVAILABLE_GAMES))
              /\ r.ok => r.selected = index
              /\ ~ r.ok => r.selected = selected_game_index
    /\ return_to_main_menu(current_game, selected_game_index).selected = 0

\* C24 witness: the last entry of the catalog is selected and a Session of that
\* variant is installed; a select beyond the catalog fails here
C24_Witness ==
    /\ selected_game_index = Len(AVAILABLE_GAMES) - 1
    /\ selected_game_index # 0
    /\ current_game # None
    /\ current_game.cls = AVAILABLE_GAMES[selected_game_index + 1]
    /\ ~ select_game(selected_game_index, Len(AVAILABLE_GAMES)).ok

\* navigate(d) called k times in a row
RECURSIVE NavigateTimes(_, _, _)
NavigateTimes(sel, d, k) ==
    IF k = 0 THEN sel ELSE NavigateTimes(navigate_game_selection(sel, d), d, k - 1)

\* C25: navigate(delta) sets the selection to (selection + delta) modulo the catalog
\* size for every integer delta of either sign: -1 from the first entry selects the
\* last, +1 from the last selects the first, navigate(d) then navigate(-d) restores
\* the selection, and catalog-size many navigate(+1) restore it.
C25_NavigateCyclic ==
    LET n == Len(AVAILABLE_GAMES)
        sel == selected_game_index
    IN  /\ \A d \in -MaxDelta..MaxDelta :
              LET r == navigate_game_selection(sel, d)
              IN  /\ r \in 0..(n - 1)
                  /\ \E k \in -(MaxDelta + 1)..(MaxDelta + 1) : r = sel + d - k * n
                  /\ navigate_game_selection(r, -d) = sel
        /\ sel = 0 => navigate_game_selection(sel, -1) = n - 1
        /\ sel = n - 1 => navigate_game_selection(sel, 1) = 0
        /\ NavigateTimes(sel, 1, n) = sel
        /\ NavigateTimes(sel, -1, n) = sel

\* C25 witness: the last entry is selected with no Session installed, where
\* navigate(+1) wraps to the first
C25_Witness ==
    /\ selected_game_index = Len(AVAILABLE_GAMES) - 1
    /\ selected_game_index # 0
    /\ current_game = None
    /\ navigate_game_selection(selected_game_index, 1) = 0

\* C26: restart(keep_same_text = true) with a Session installed installs a new
\* Session, READY with cursor 0, empty typed_text, error_count 0 and the timer unset,
\* whose target_text is the previous Session's token for token; a previous Session
\* still in progress is cancelled; the step that installs the new Session keeps the
\* selected index and commits nothing to the History Store.
C26_RestartSameText ==
    /\ [](current_game # None =>
            /\ \A o \in RestartOutcomes(current_game, selected_game_index, TRUE) :
                  /\ o.ok
                  /\ o.current_game # None
                  /\ FreshSession(o.current_game)
                  /\ o.current_game.target_words = current_game.target_words
                  /\ o.current_game.cls = AVAILABLE_GAMES[selected_game_index + 1]
            /\ ~ is_finished(current_game) => cancel(current_game).status = CANCELLED)
    /\ [][(/\ current_game' # current_game
           /\ current_game' # None
           /\ FreshSession(current_game'))
          => (selected_game_index' = selected_game_index /\ history' = history)]_vars

\* C27: the Router's process_input returns failure exactly when no Session is
\* installed, and then changes nothing; with a Session installed it hands the text
\* and the is_complete flag as given to that Session and returns success, whatever
\* the Session's status (also when the Session answers "inactive").
C27_InputFailsIffNoSession ==
    \A input_text \in RouterTexts, is_complete \in BOOLEAN :
        LET o == process_game_input(current_game, input_text, is_complete, now)
        IN  /\ o.ok <=> current_game # None
            /\ current_game = None => o.current_game = None
            /\ current_game # None =>
                    o.current_game = process_input(current_game, input_text, is_complete, now).game

\* C27 witness: a timed Session that is no longer ACTIVE is installed, so the
\* Session answers "inactive" to a non-empty input and the Router still succeeds
C27_Witness ==
    /\ current_game # None
    /\ current_game.status \in {COMPLETED, CANCELLED}
    /\ current_game.start_time # 0
    /\ \E input_text \in RouterTexts :
          /\ input_text # <<>>
          /\ process_input(current_game, input_text, TRUE, now).status = "inactive"
          /\ process_game_input(current_game, input_text, TRUE, now).ok

\* C28: serialization round-trips: for every Result r (any variant name, any
\* timestamp, any transient flags) from_dict(to_dict(r)) has the wpm, accuracy,
\* duration, variant name, timestamp, total_characters, correct_characters and
\* error_count of r; to_dict(r) holds neither is_new_record nor previous_best, and
\* the restored Result has is_new_record = false and previous_best absent.
C28_RoundTrip ==
    game_result # None =>
        LET data == to_dict(game_result)
            restored == from_dict(data, now)
        IN  /\ ~ restored.raises
            /\ Persisted(restored.result) = Persisted(game_result)
            /\ "is_new_record" \notin DOMAIN data
            /\ "previous_best" \notin DOMAIN data
            /\ restored.result.is_new_record = FALSE
            /\ restored.result.previous_best = <<>>

\* the datetime ts is what the parsable text stands for: the text's own datetime when
\* it carries an offset, else the UTC datetime with the text's wall-clock reading
TimestampIs(ts, text) ==
    IF text.aware THEN isoformat(ts) = text ELSE ts = datetime(text.wall, TRUE, 0)

\* C29: from_dict reads legacy records: 'game' is the variant name when 'game_type'
\* is absent and 'date' the timestamp when 'timestamp' is absent; the modern keys
\* take precedence when both are present; a record with neither variant key gets
\* 'Unknown'; a timestamp without timezone information becomes a UTC instant with
\* the same wall-clock fields; a timezone-aware timestamp is kept unchanged.
C29_LegacyKeys ==
    LET o == from_dict(record, now)
        keys == DOMAIN record
    IN  /\ ~ o.raises
        /\ ("game_type" \notin keys /\ "game" \in keys) => o.result.game_type = record["game"]
        /\ ("game_type" \in keys /\ "game" \in keys) => o.result.game_type = record["game_type"]
        /\ ("game_type" \notin keys /\ "game" \notin keys) => o.result.game_type = "Unknown"
        /\ ("timestamp" \notin keys /\ "date" \in keys)
                => TimestampIs(o.result.timestamp, record["date"])
        /\ ("timestamp" \in keys /\ record["timestamp"].iso)
                => TimestampIs(o.result.timestamp, record["timestamp"])

\* the characters of the typed tokens plus one separator per adjacent pair of them
TotalTyped(typed) == SumLen(typed) + Cardinality({i \in 1..Len(typed) : i + 1 <= Len(typed)})

\* the positions <<token, character>> at which a paired typed and target token
\* differ, counted up to the longer of the two
DifferingPositions(typed, target) ==
    Cardinality({p \in UNION {{<<i, k>> : k \in 1..Max(Len(typed[i]), Len(target[i]))} :
                                i \in 1..Min(Len(typed), Len(target))} :
                    \/ p[2] > Len(typed[p[1]])
                    \/ p[2] > Len(target[p[1]])
                    \/ typed[p[1]][p[2]] # target[p[1]][p[2]]})

\* C30: for all typed and target sequences and elapsed > 0, calculate_wpm is never
\* negative and is non-increasing in the number of uncorrected errors with the typed
\* sequence and the elapsed time fixed, where the total of typed characters counts
\* one separator per adjacent pair of typed tokens and the uncorrected errors count
\* every differing character position of each paired token up to the longer of the
\* two; calculate_wpm is 0 when elapsed is 0.
C30_WpmMonotone ==
    LET typed == args.typed_words
        target == args.target_words
        elapsed == args.elapsed_time_seconds
        wpm == calculate_wpm(typed, target, elapsed)
    IN  /\ elapsed = 0 => wpm = 0
        /\ elapsed > 0 =>
              /\ wpm >= 0
              /\ wpm = RoundDiv(1200 * Max(TotalTyped(typed) - DifferingPositions(typed, target), 0),
                                elapsed)
              /\ \A other \in WordLists :
                    DifferingPositions(typed, other) >= DifferingPositions(typed, target)
                        => calculate_wpm(typed, other, elapsed) <= wpm
        /\ stats.wpm # <<>> => stats.wpm = <<wpm>>

\* C30 witness: calculate_wpm returned a positive rate for two typed tokens with one
\* differing position; a target with more differing positions gives a lower rate,
\* and one with more differing positions than typed characters gives 0
C30_Witness ==
    /\ stats.wpm # <<>>
    /\ stats.wpm[1] > 0
    /\ args.elapsed_time_seconds > 0
    /\ Len(args.typed_words) = 2
    /\ DifferingPositions(args.typed_words, args.target_words) = 1
    /\ \E other \in WordLists :
          /\ DifferingPositions(args.typed_words, other) = 2
          /\ 0 < calculate_wpm(args.typed_words, other, args.elapsed_time_seconds)
          /\ calculate_wpm(args.typed_words, other, args.elapsed_time_seconds) < stats.wpm[1]
    /\ \E other \in WordLists :
          /\ DifferingPositions(args.typed_words, other) > TotalTyped(args.typed_words)
          /\ calculate_wpm(args.typed_words, other, args.elapsed_time_seconds) = 0

\* C31: for all typed and target sequences and every typo_count >= 0,
\* calculate_accuracy lies in [0, 100]; it is 100 when typo_count = 0 and at least
\* one character was typed against a non-empty target; it is 0 when either sequence
\* is empty or no character was typed; a typo count above the number of typed
\* characters is capped, so the value is 0 there and never below.
C31_AccuracyRange ==
    LET typed == args.typed_words
        target == args.target_words
        typo_count == args.typo_count
        accuracy == calculate_accuracy(typed, target, typo_count)
    IN  /\ 0 <= accuracy /\ accuracy <= 10000
        /\ (typo_count = 0 /\ SumLen(typed) > 0 /\ target # <<>>) => accuracy = 10000
        /\ (typed = <<>> \/ target = <<>> \/ SumLen(typed) = 0) => accuracy = 0
        /\ (typo_count >= SumLen(typed)) => accuracy = 0
        /\ (SumLen(typed) > 0 /\ target # <<>> /\ typo_count <= SumLen(typed))
              => accuracy = RoundDiv(10000 * (SumLen(typed) - typo_count), SumLen(typed))
        /\ stats.accuracy # <<>> => stats.accuracy = <<accuracy>>

\* C31 witness: calculate_accuracy was called with more typos than typed characters
\* against a non-empty target and returned 0
C31_Witness ==
    /\ stats.accuracy = <<0>>
    /\ args.target_words # <<>>
    /\ SumLen(args.typed_words) > 0
    /\ args.typo_count > SumLen(args.typed_words)

\* C32: the periodic tick is a pure read: get_current_stats and get_display_data, in
\* any Session status and anywhere among the input events, leave every field of the
\* Session as it was, and a second read at the same time returns the same snapshot;
\* no step that keeps the Session changes the History Store; before the timer has
\* started get_current_stats reports wpm 0 and accuracy 100.
C32_TickIsPureRead ==
    /\ [](LET o == update_game_stats(current_game, now)
              again == update_game_stats(o.game, now)
          IN  /\ o.game = current_game
              /\ again.game = current_game
              /\ again.stats = o.stats
              /\ again.display_data = o.display_data
              /\ current_game.start_time = 0
                    => (o.stats.wpm = 0 /\ o.stats.accuracy = 10000))
    /\ [][current_game' = current_game => history' = history]_vars

\* C32 witness: the tick reads an ACTIVE Session with a submitted token, a counted
\* error and a positive rate
C32_Witness ==
    /\ current_game.status = ACTIVE
    /\ current_game.current_word_index >= 1
    /\ current_game.error_count >= 1
    /\ update_game_stats(current_game, now).stats.wpm > 0
    /\ update_game_stats(current_game, now).stats.accuracy < 10000

\* C33: when every token of a started random-words Session has been submitted with
\* is_complete = true and equal to its target token, with no partial input, the
\* Session is COMPLETED with error_count = 0, and the Result of finish() has
\* accuracy 100 and correct_characters = total_characters.
C33_PerfectGame ==
    /\ current_game.error_count = 0
    /\ current_game.current_word_index = Len(current_game.target_words) =>
          /\ current_game.status = COMPLETED
          /\ current_game.typed_words = current_game.target_words
          /\ \A t \in now..MaxTime :
                LET result == finish(current_game, t).result
                IN  /\ result.accuracy = 10000
                    /\ result.correct_characters = result.total_characters
                    /\ result.error_count = 0
          /\ current_game.result # None =>
                /\ current_game.result.accuracy = 10000
                /\ current_game.result.correct_characters = current_game.result.total_characters

\* C33 witness: the MIN_WORD_COUNT tokens of a target of two different words were
\* submitted and finish() produced the Result
C33_Witness ==
    /\ Len(current_game.target_words) = MIN_WORD_COUNT
    /\ current_game.current_word_index = MIN_WORD_COUNT
    /\ current_game.status = COMPLETED
    /\ \E i, j \in 1..MIN_WORD_COUNT : current_game.target_words[i] # current_game.target_words[j]
    /\ current_game.result # None
    /\ current_game.result.accuracy = 10000
    /\ current_game.result.total_characters > MIN_WORD_COUNT
    /\ current_game.result.wpm > 0

\* C34: loading the preferences never raises and always yields a word_count within
\* [MIN_WORD_COUNT, MAX_WORD_COUNT]: a missing file, a file that is not valid JSON and
\* a stored value outside the range each yield DEFAULT_WORD_COUNT, and a value inside
\* the range that was saved is returned by the next load.
C34_LoadNeverRaises ==
    LET o == preferences_load(preferences_file)
    IN  /\ ~ o.raises
        /\ MIN_WORD_COUNT <= o.preferences.word_count
        /\ o.preferences.word_count <= MAX_WORD_COUNT
        /\ preferences_file.kind \in {"missing", "text", "nested"}
              => o.preferences.word_count = DEFAULT_WORD_COUNT
        /\ (/\ preferences_file.kind = "object"
            /\ preferences_file.word_count.kind = "int"
            /\ preferences_file.word_count.n \notin MIN_WORD_COUNT..MAX_WORD_COUNT)
              => o.preferences.word_count = DEFAULT_WORD_COUNT
        /\ \A n \in ValidCounts :
              LET saved == preferences_save(preferences_file, UserPreferences(n), "none")
              IN  /\ ~ preferences_load(saved).raises
                  /\ preferences_load(saved).preferences = UserPreferences(n)

\* C35: initialize of the random-words variant returns success and moves the Session
\* from NOT_STARTED to READY exactly when MIN_WORD_COUNT <= word_count <=
\* MAX_WORD_COUNT; with a word_count outside the range it returns failure, the
\* Session stays NOT_STARTED, and a following start() fails and generates no target.
C35_InitializeValidates ==
    (current_game.cls = "RandomWordsGame" /\ current_game.status = NOT_STARTED) =>
        \A config \in Configs \cup {<<MAX_WORD_COUNT>>, <<MAX_WORD_COUNT - 1>>, <<0>>} :
            LET word_count == IF config = <<>> THEN DEFAULT_WORD_COUNT ELSE config[1]
                o == initialize(current_game, config)
            IN  /\ o.ok <=> (MIN_WORD_COUNT <= word_count /\ word_count <= MAX_WORD_COUNT)
                /\ o.ok => o.game.status = READY
                /\ ~ o.ok =>
                      /\ o.game.status = NOT_STARTED
                      /\ \A content \in Contents(o.game) :
                            /\ ~ start(o.game, content).ok
                            /\ start(o.game, content).game = o.game
                            /\ start(o.game, content).game.target_words = <<>>

\* C35 witness: initialize was refused a word_count outside the range and left the
\* random-words Session NOT_STARTED, where start() fails
C35_Witness ==
    /\ current_game.cls = "RandomWordsGame"
    /\ current_game.status = NOT_STARTED
    /\ ~ (MIN_WORD_COUNT <= current_game.word_count /\ current_game.word_count <= MAX_WORD_COUNT)
    /\ current_game.target_words = <<>>
    /\ \A content \in Contents(current_game) : ~ start(current_game, content).ok

\* C36: get_current_stats uses the metric formulas of finish(): for an ACTIVE
\* Session, at the same Session state and the same elapsed time, the wpm and the
\* accuracy get_current_stats reports are those of the Result finish() would
\* produce, at every cursor from 0 to len(target_text).
C36_StatsMatchFinish ==
    current_game.status = ACTIVE =>
        LET stats_now == get_current_stats(current_game, now)
            result == finish(current_game, now).result
        IN  /\ stats_now.wpm = result.wpm
            /\ stats_now.accuracy = result.accuracy

\* C37: typed_text has at most one slot per target token: len(typed_text) <=
\* len(target_text) in every reachable state, under any sequence of partial and
\* complete inputs, for every target a variant can produce, the empty target of a
\* missing or empty word corpus included.
C37_TypedWithinTarget ==
    Len(current_game.typed_words) <= Len(current_game.target_words)

\* C38: a Result is created and committed once per Session: the History Store never
\* holds more records than Sessions were installed; with the one Session of this
\* specification it never holds more than one record, however often finish_game is
\* called on that Session and whatever input comes in between.
C38_OneRecordPerSession ==
    Len(history) <= 1

\* C39: every recoverable failure leaves the previous good state: when Router start
\* or Router restart returns failure, the Router is as it was before the call, with
\* the same Session installed in the same status (or none); neither call has the
\* selected index or the History Store among the things it assigns.
C39_FailureLeavesRouter ==
    \A sel \in Selections :
        /\ \A config \in Configs :
              \A o \in StartOutcomes(current_game, sel, config) :
                  ~ o.ok => o.current_game = current_game
        /\ \A keep_same_text \in BOOLEAN :
              \A o \in RestartOutcomes(current_game, sel, keep_same_text) :
                  ~ o.ok => o.current_game = current_game

\* C40: with two JsonHistoryRepository instances on the same file whose calls do not
\* overlap, no committed Result is lost from the backing store: after any
\* interleaving of save and read calls on the two instances, get_all of a fresh
\* instance returns every Result saved through either, also when both instances had
\* built their caches before the other one saved.
C40_SharedFileKeepsAll ==
    LET fresh == json_get_all(file, NoCache, "asc", now)
    IN  /\ ~ fresh.raises
        /\ SameRecords(fresh.results, history)

\* C40 witness: both instances had built an empty cache, then each saved one Result;
\* each cache holds only its own Result and the file holds both
C40_Witness ==
    /\ Len(history) = 2
    /\ results_cache.built /\ Len(results_cache.results) = 1
    /\ other_results_cache.built /\ Len(other_results_cache.results) = 1
    /\ Persisted(results_cache.results[1]) # Persisted(other_results_cache.results[1])
    /\ Len(json_get_all(file, NoCache, "asc", now).results) = 2

=============================================================================
